---- MODULE Spec2Model ----
(***************************************************************************)
(* Model of the serial path of the Vibe Monitor hooks                      *)
(* (docs/claude/hooks/vibemon.py and docs/kiro/hooks/vibemon.py, whose     *)
(* serial code is identical): independent short-lived processes that each  *)
(* run one send_serial call against the same device path and cooperate     *)
(* only through three files in /tmp (device lock, debounce record,         *)
(* debounce lock) and the device itself.                                   *)
(***************************************************************************)
EXTENDS Integers, Sequences, FiniteSets, TLC

\* ------------------------------------------------------------------ bounds
NumProcs == 3          \* processes, each running one send_serial call
MaxErrors == 1         \* faults per run: a failing system call, an unplugged device, a crash
MaxUrls == 2           \* entries of VIBEMON_HTTP_URLS
MaxTasks == 2          \* targets (HTTP, serial, VibeMon API) one configuration names
MaxEntries == 3        \* entries of the file system when a pattern is resolved
NumWriters == 2        \* processes, each running one save_to_cache call
MaxTicks == 1          \* seconds the clock advances while the cache is written

\* ------------------------------------------------------- program constants
SERIAL_LOCK_MAX_RETRIES == 10
VIBE_MONITOR_MAX_PROJECTS == 10

Procs == 1..NumProcs
\* The JSON line process p passes to send_serial: one distinct payload per caller,
\* different from every token.
PayloadOf(p) == 100 + p
NoProc == 0

\* Contents of the debounce file: no file, an unparsable file, or one
\* complete JSON object {"id", "data", "time"}.
NoRecord == [id |-> 0, data |-> 0, time |-> 0]
CorruptRecord == [id |-> -1, data |-> 0, time |-> 0]

VARIABLES
    pc,          \* pc[p]: position of process p in send_serial / send_serial_raw
    data,        \* data[p]: the payload passed to send_serial by process p
    devExists,   \* os.path.exists(port)
    lockFile,    \* the device-lock file exists in /tmp
    dlockFile,   \* the debounce-lock file exists in /tmp
    record,      \* contents of the debounce file
    clock,       \* time.time(), advanced by every record overwrite
    mlock,       \* holder of the flock on the debounce-lock file (NoProc: free)
    dlock,       \* holder of the flock on the device-lock file (NoProc: free)
    lock_fd,     \* lock_fd[p]: send_serial's local lock_fd is not None
    raw_fd,      \* raw_fd[p]: send_serial_raw's local lock_fd is not None
    attempt,     \* attempt[p]: failed attempts so far in _acquire_lock
    exc,         \* exc[p]: an exception is propagating in send_serial
    retval,      \* retval[p]: value of the pending return statement of send_serial
    rawFrom,     \* rawFrom[p]: call site of the running send_serial_raw
    rawArg,      \* rawArg[p]: data argument of the running send_serial_raw
    rawRes,      \* rawRes[p]: value send_serial_raw is about to return
    result,      \* result[p]: value returned by send_serial (valid once pc[p] = "done")
    devLog,      \* lines physically written to the device, in order
    errs,        \* number of faults so far
    hist         \* history of the run, read by the properties only

\* State of one hook invocation seen from main(): its command line, its
\* configuration, and where it is in a control operation or in send_to_all.
\* Its serial submissions are the send_serial call of process MainProc.
VARIABLES
    hook,        \* which front end runs: the Claude hook or the Kiro hook
    argv,        \* sys.argv[1:]
    config,      \* the Config that get_config() builds from the environment
    event,       \* hook_event_name of the event read from standard input
    mpc,         \* position of the invocation in main()
    op,          \* the control operation handle_command selected ("none": none)
    urlIdx,      \* next element of config.http_urls in try_http_targets
    success,     \* local `success` of the control operation
    result_text, \* local `result` of the control operation
    net,         \* HTTP requests issued so far, in order
    spawned,     \* launch_desktop has spawned the helper process
    stdout,      \* characters written to standard output
    exitCode,    \* exit status of the process (Running: still running)
    tasks,       \* send_to_all's task list
    tstate,      \* tstate[k]: state of the future of tasks[k]
    handled,     \* tasks whose future the as_completed loop has handled
    sent_to_all, \* send_to_all has been entered
    uncaught     \* where an exception nobody catches was raised ("none": nowhere)

mainVars == <<hook, argv, config, event, mpc, op, urlIdx, success, result_text, net,
              spawned, stdout, exitCode, tasks, tstate, handled, sent_to_all, uncaught>>

serialVars == <<pc, data, devExists, lockFile, dlockFile, record, clock, mlock, dlock,
                lock_fd, raw_fd, attempt, exc, retval, rawFrom, rawArg, rawRes,
                result, devLog, errs, hist>>

\* One call of a function that is checked on its own: the function, what it
\* is given (its arguments and the part of the environment it reads), and
\* what it returned.
VARIABLES
    fn,          \* the function being called ("none": no such call)
    env,         \* its arguments and the environment it reads
    ret          \* whether it has returned, and its return value

\* The statusline's project cache: the files under the cache directory, the
\* lock on the cache's lock file, and the save_to_cache calls in progress.
VARIABLES
    files,       \* files[path]: contents of the cache file and of the temporary files
    cache_lock,  \* pid holding the flock on "<cache_path>.lock" (NoProc: free)
    save,        \* save[w]: frame of the save_to_cache call of process w
    now          \* int(time.time())

cacheVars == <<files, cache_lock, save, now>>

pureVars == <<fn, env, ret, cacheVars>>

vars == <<serialVars, mainVars, pureVars>>

\* hist fields:
\*   recTime[p]    clock value of p's record overwrite (0: none)
\*   superseded[p] p read a record holding another token
\*   matched[p]    p read a record holding its own token
\*   failed[p]     a filesystem or locking step of p's send_serial failed
\*   fbArg[p]      payload p's except clause passed to send_serial_raw (0: none)
\*   fbRes[p]      what that fallback send_serial_raw returned ("none": not yet)
\*   stty[p]       "norun" when stty could not be started in p's current
\*                 send_serial_raw call, "ok" otherwise
\*   decided       some process has made its post-sleep read of the record
\*   late          a record overwrite happened after some post-sleep read
HistInit ==
    [recTime |-> [p \in Procs |-> 0],
     superseded |-> [p \in Procs |-> FALSE],
     matched |-> [p \in Procs |-> FALSE],
     failed |-> [p \in Procs |-> FALSE],
     fbArg |-> [p \in Procs |-> 0],
     fbRes |-> [p \in Procs |-> "none"],
     stty |-> [p \in Procs |-> "ok"],
     decided |-> FALSE,
     late |-> FALSE]

\* ------------------------------------------------- the invocation's inputs
\* The process of the serial layer that stands for this invocation.
MainProc == 1

\* exitCode while the process has not exited.
Running == -1

\* Text is a sequence of characters; "nl" is the line terminator and every
\* other element is one character (or one run of characters without a line
\* terminator). None is Python's None where a str is expected.
None == <<"None">>
ResponseTexts == {<<>>, <<"{..}">>, <<"{", "nl", "}">>}

\* Entries of VIBEMON_HTTP_URLS, as the pieces of the URL text.
DesktopUrl == <<"http://", "127.0.0.1", ":19280">>
Esp32Url == <<"http://", "esp32.local">>
Urls == {DesktopUrl, Esp32Url}

\* parse_http_urls: the configured URLs in configured order.
UrlLists ==
    {<<>>} \cup {<<u>> : u \in Urls}
           \cup {l \in {<<u, v>> : u \in Urls, v \in Urls} : l[1] # l[2]}

\* A path or a pattern is the sequence of its characters; <<>> is the empty
\* string (an unset VIBEMON_SERIAL_PORT).
TtyUSB == <<"/", "d", "e", "v", "/", "t", "t", "y", "U", "S", "B">>
TtyACM == <<"/", "d", "e", "v", "/", "t", "t", "y", "A", "C", "M">>
\* The device path the serial writes of the model go to.
Device == TtyUSB \o <<"0">>

\* VIBEMON_SERIAL_PORT: unset, a device path, or a pattern with a wildcard.
SerialPatterns == {<<>>, Device, TtyUSB \o <<"*">>}

\* Number of targets a configuration names.
Targets(c) ==
    Len(c.http_urls) + (IF c.serial_port # <<>> THEN 1 ELSE 0)
                     + (IF c.vibemon_url /\ c.vibemon_token THEN 1 ELSE 0)

Configs ==
    {c \in [http_urls : {l \in UrlLists : Len(l) <= MaxUrls},
            serial_port : SerialPatterns,
            auto_launch : BOOLEAN,
            vibemon_url : BOOLEAN,
            vibemon_token : BOOLEAN] : Targets(c) <= MaxTasks}

NoConfig ==
    [http_urls |-> <<>>, serial_port |-> <<>>, auto_launch |-> FALSE,
     vibemon_url |-> FALSE, vibemon_token |-> FALSE]

\* The two front ends: docs/claude/hooks/vibemon.py and
\* docs/kiro/hooks/vibemon.py.
Hooks == {"claude", "kiro"}

\* sys.argv[1:]
Argvs ==
    {<<>>, <<"--lock">>, <<"--unlock">>, <<"--status">>,
     <<"--lock-mode">>, <<"--lock-mode", "first-project">>, <<"--lock-mode", "bogus">>,
     <<"--reboot">>, <<"--verbose">>, <<"promptSubmit">>, <<"">>}

\* The invocations of the model: the Kiro hook is given its event as first
\* argument, the Claude hook reads it from standard input.
Invocations ==
    {i \in Hooks \X Argvs : i[1] = "kiro" \/ i[2] \notin {<<"promptSubmit">>, <<"">>}}

\* The arguments of the model that start with "--".
Dashed == {"--lock", "--unlock", "--status", "--lock-mode", "--reboot", "--verbose"}

\* hook_event_name of the event the Claude hook reads from standard input.
\* The Kiro hook takes its first argument as the event. "" before it is read.
Events == {"SessionStart", "PreToolUse"}

\* The serial layer alone: no invocation is modelled around the calls.
\* A call that has not returned, and one that has returned value v.
Pending == [done |-> FALSE, value |-> <<>>]
Returned(v) == [done |-> TRUE, value |-> v]
\* ------------------------------------------------- the cache's vocabulary
Writers == 1..NumWriters

\* get_cache_path(): the cache file, as the components of its name.
cache_path == <<"statusline.json">>

\* Mutant of tmpfile: the new cache is written over the cache file itself.
tmpfile_in_place(path, pid) == path

\* tmpfile = f"{cache_path}.tmp.{os.getpid()}"
tmpfile(path, pid) == path \o <<".tmp.", ToString(pid)>>

Paths == {cache_path} \cup {tmpfile(cache_path, w) : w \in Writers}

\* A path that names no file; a file opened for writing and not yet written
\* to the end; a file holding the complete JSON text of a cache.
Absent == [exists |-> FALSE, complete |-> FALSE, entries |-> <<>>]
Truncated == [exists |-> TRUE, complete |-> FALSE, entries |-> <<>>]
Complete(cache) == [exists |-> TRUE, complete |-> TRUE, entries |-> cache]

\* The frame of a save_to_cache call that has not been made.
NotCalled ==
    [pc |-> "idle", project |-> 0, timestamp |-> 0, cache |-> <<>>,
     lock_fd |-> FALSE, acquired |-> FALSE, timed_out |-> FALSE,
     loaded |-> FALSE, published |-> FALSE]

\* No statusline runs: nothing is cached and nobody saves.
NoSave ==
    /\ files = [f \in Paths |-> Absent]
    /\ cache_lock = NoProc
    /\ save = [w \in Writers |-> NotCalled]
    /\ now = 0

NoCall ==
    /\ fn = "none"
    /\ env = <<>>
    /\ ret = Pending
    /\ NoSave

MainAbsent ==
    /\ hook = "claude"
    /\ argv = <<>>
    /\ config = NoConfig
    /\ event = ""
    /\ mpc = "absent"
    /\ op = "none"
    /\ urlIdx = 1
    /\ success = FALSE
    /\ result_text = None
    /\ net = <<>>
    /\ spawned = FALSE
    /\ stdout = <<>>
    /\ exitCode = Running
    /\ tasks = <<>>
    /\ tstate = <<>>
    /\ handled = {}
    /\ sent_to_all = FALSE
    /\ uncaught = "none"

MayFail == errs < MaxErrors

Init ==
    /\ pc = [p \in Procs |-> "start"]
    /\ data = [p \in Procs |-> PayloadOf(p)]
    /\ devExists \in BOOLEAN
    /\ lockFile = FALSE
    /\ dlockFile = FALSE
    /\ record = NoRecord
    /\ clock = 0
    /\ mlock = NoProc
    /\ dlock = NoProc
    /\ lock_fd = [p \in Procs |-> FALSE]
    /\ raw_fd = [p \in Procs |-> FALSE]
    /\ attempt = [p \in Procs |-> 0]
    /\ exc = [p \in Procs |-> FALSE]
    /\ retval = [p \in Procs |-> FALSE]
    /\ rawFrom = [p \in Procs |-> "none"]
    /\ rawArg = [p \in Procs |-> 0]
    /\ rawRes = [p \in Procs |-> FALSE]
    /\ result = [p \in Procs |-> FALSE]
    /\ devLog = <<>>
    /\ errs = 0
    /\ hist = HistInit
    /\ MainAbsent
    /\ NoCall

\* ----------------------------------------------------------------- helpers
\* my_id = str(uuid.uuid4()): a token no other call shares.
my_id(p) == p

\* Mutant of flock_free: the lock is granted whoever holds it.
flock_free_always(holder) == TRUE

\* fcntl.flock(fd, LOCK_EX [| LOCK_NB]) is granted only while no other open
\* file description holds the lock.
flock_free(holder) == holder = NoProc

\* json.dump({"id": my_id, "data": data, "time": time.time()}, f)
NewRecord(p, d, t) == [id |-> my_id(p), data |-> d, time |-> t]

\* json.load(f) succeeds on a complete record only.
Readable(rec) == rec.id > 0

\* Mutant of token_is_mine: the token comparison is dropped.
token_is_mine_always(rec, p) == TRUE

\* Mutant of token_is_mine: the comparison never succeeds.
token_is_mine_never(rec, p) == FALSE

\* state["id"] != my_id, negated
token_is_mine(rec, p) == rec.id = my_id(p)

\* Mutant of acquire_lock_granted: the lock is taken whoever holds it.
acquire_lock_granted_always(holder) == TRUE

\* fcntl.flock(lock_fd, LOCK_EX | LOCK_NB) in _acquire_lock returns (instead
\* of raising BlockingIOError) only while nobody else holds the device lock.
acquire_lock_granted(holder) == holder = NoProc

\* Mutant of raw_port_exists: the existence check is skipped.
raw_port_exists_skipped(exists) == TRUE

\* os.path.exists(port) as send_serial_raw evaluates it
raw_port_exists(exists) == exists

\* Mutant of fallback_payload: the fallback sends whatever the record holds.
fallback_payload_from_record(p) == record.data

\* The payload the except clause of send_serial hands to send_serial_raw: the
\* caller's data argument.
fallback_payload(p) == data[p]

\* Mutant of unlocked: the unlock is forgotten.
unlocked_never(holder, p) == holder

\* fcntl.flock(lock_fd, LOCK_UN) by process p
unlocked(holder, p) == IF holder = p THEN NoProc ELSE holder

\* os.close(lock_fd): the descriptor is no longer open
closed(fd) == FALSE

\* Mutant of retries_exhausted: one attempt too many.
retries_exhausted_late(failed) == failed > SERIAL_LOCK_MAX_RETRIES

\* Mutant of superseded_result: a superseded call reports failure.
superseded_result_false == FALSE

\* return True  # Another process will send
superseded_result == TRUE

\* for attempt in range(max_retries): the loop ends after max_retries failures.
retries_exhausted(failed) == failed >= SERIAL_LOCK_MAX_RETRIES

\* The except clause of send_serial: (IOError, OSError, json.JSONDecodeError)
\* lead to the fallback; the finally clause runs after it.
Raise(p) == pc' = [pc EXCEPT ![p] = "fallback"]

\* A filesystem or locking step of p's send_serial has failed.
Failed(p) == [hist EXCEPT !.failed[p] = TRUE]

\* Entering send_serial_raw(port, arg) from call site `from`.
CallRaw(p, from, arg) ==
    /\ pc' = [pc EXCEPT ![p] = "r_exists"]
    /\ rawFrom' = [rawFrom EXCEPT ![p] = from]
    /\ rawArg' = [rawArg EXCEPT ![p] = arg]

\* send_serial_raw returning res to its call site in send_serial; its frame
\* (arguments and locals) is gone.
ReturnRaw(p, res) ==
    /\ pc' = [pc EXCEPT ![p] = IF rawFrom[p] = "normal" THEN "s_release2" ELSE "s_final"]
    /\ retval' = [retval EXCEPT ![p] = res]
    /\ rawFrom' = [rawFrom EXCEPT ![p] = "none"]
    /\ rawArg' = [rawArg EXCEPT ![p] = 0]
    /\ rawRes' = [rawRes EXCEPT ![p] = FALSE]
    /\ attempt' = [attempt EXCEPT ![p] = 0]
    /\ hist' = IF rawFrom[p] = "fallback"
               THEN [hist EXCEPT !.fbRes[p] = IF res THEN "true" ELSE "false",
                                 !.stty[p] = "ok"]
               ELSE [hist EXCEPT !.stty[p] = "ok"]

\* send_serial returning res to its caller; its frame is gone.
Return(p, res) ==
    /\ pc' = [pc EXCEPT ![p] = "done"]
    /\ result' = [result EXCEPT ![p] = res]
    /\ retval' = [retval EXCEPT ![p] = FALSE]
    /\ exc' = [exc EXCEPT ![p] = FALSE]

\* ------------------------------------------------------------- send_serial
\* Mutant of port_exists: send_serial goes on without looking for the device.
port_exists_always(present) == TRUE

\* os.path.exists(port) at the head of send_serial
port_exists(present) == present

\* if not os.path.exists(port): return False
send_serial_exists(p) ==
    /\ pc[p] = "start"
    /\ IF port_exists(devExists)
       THEN /\ pc' = [pc EXCEPT ![p] = "s_open1"]
            /\ UNCHANGED <<result, retval, exc>>
       ELSE Return(p, FALSE)
    /\ UNCHANGED <<pureVars, mainVars, data, devExists, lockFile, dlockFile, record, clock, mlock, dlock,
                   lock_fd, raw_fd, attempt, rawFrom, rawArg, rawRes,
                   devLog, errs, hist>>

\* lock_fd = os.open(lock_path, os.O_CREAT | os.O_RDWR), both occurrences
send_serial_open(p) ==
    /\ pc[p] \in {"s_open1", "s_open2"}
    /\ \/ /\ dlockFile' = TRUE
          /\ lock_fd' = [lock_fd EXCEPT ![p] = TRUE]
          /\ pc' = [pc EXCEPT ![p] = IF pc[p] = "s_open1" THEN "s_lock1" ELSE "s_lock2"]
          /\ UNCHANGED <<errs, hist>>
       \/ /\ MayFail
          /\ errs' = errs + 1
          /\ Raise(p)
          /\ hist' = Failed(p)
          /\ UNCHANGED <<dlockFile, lock_fd>>
    /\ UNCHANGED <<pureVars, mainVars, data, devExists, lockFile, record, clock, mlock, dlock,
                   raw_fd, attempt, exc, retval, rawFrom, rawArg, rawRes,
                   result, devLog>>

\* fcntl.flock(lock_fd, fcntl.LOCK_EX): blocks until the lock is free
send_serial_flock(p) ==
    /\ pc[p] \in {"s_lock1", "s_lock2"}
    /\ \/ /\ flock_free(mlock)
          /\ mlock' = p
          /\ pc' = [pc EXCEPT ![p] = IF pc[p] = "s_lock1" THEN "s_write" ELSE "s_read"]
          /\ UNCHANGED <<errs, hist>>
       \/ /\ MayFail
          /\ errs' = errs + 1
          /\ Raise(p)
          /\ hist' = Failed(p)
          /\ UNCHANGED mlock
    /\ UNCHANGED <<pureVars, mainVars, data, devExists, lockFile, dlockFile, record, clock, dlock,
                   lock_fd, raw_fd, attempt, exc, retval, rawFrom, rawArg, rawRes,
                   result, devLog>>

\* with open(debounce_path, "w") as f: json.dump({...}, f)
send_serial_write_record(p) ==
    /\ pc[p] = "s_write"
    /\ pc' = [pc EXCEPT ![p] = "s_release1"]
    /\ \/ /\ record' = NewRecord(p, data[p], clock + 1)
          /\ clock' = clock + 1
          /\ hist' = [hist EXCEPT !.recTime[p] = clock + 1,
                                  !.late = @ \/ hist.decided]
          /\ UNCHANGED <<exc, errs>>
       \/ /\ MayFail
          /\ errs' = errs + 1
          \* open() fails and leaves the file alone, or the dump fails after
          \* open() has truncated it
          /\ record' \in {record, CorruptRecord}
          /\ exc' = [exc EXCEPT ![p] = TRUE]
          /\ hist' = Failed(p)
          /\ UNCHANGED clock
    /\ UNCHANGED <<pureVars, mainVars, data, devExists, lockFile, dlockFile, mlock, dlock,
                   lock_fd, raw_fd, attempt, retval, rawFrom, rawArg, rawRes,
                   result, devLog>>

\* finally: fcntl.flock(lock_fd, fcntl.LOCK_UN); os.close(lock_fd); lock_fd = None
\* (both occurrences), then the statement the try block was leaving with:
\* fall through to the sleep, return retval, or propagate the exception.
send_serial_release(p) ==
    /\ pc[p] \in {"s_release1", "s_release2"}
    /\ \/ /\ mlock' = unlocked(mlock, p)
          /\ lock_fd' = [lock_fd EXCEPT ![p] = FALSE]
          /\ IF exc[p]
             THEN Raise(p) /\ UNCHANGED <<result, retval, exc>>
             ELSE IF pc[p] = "s_release1"
                  THEN pc' = [pc EXCEPT ![p] = "s_sleep"] /\ UNCHANGED <<result, retval, exc>>
                  ELSE Return(p, retval[p])
          /\ UNCHANGED <<errs, hist>>
       \/ \* flock(LOCK_UN) raises: the lock stays, lock_fd stays set
          /\ MayFail
          /\ errs' = errs + 1
          /\ Raise(p)
          /\ hist' = Failed(p)
          /\ UNCHANGED <<mlock, lock_fd, result, retval, exc>>
       \/ \* os.close raises after the unlock: lock_fd stays set
          /\ MayFail
          /\ errs' = errs + 1
          /\ mlock' = unlocked(mlock, p)
          /\ Raise(p)
          /\ hist' = Failed(p)
          /\ UNCHANGED <<lock_fd, result, retval, exc>>
    /\ UNCHANGED <<pureVars, mainVars, data, devExists, lockFile, dlockFile, record, clock, dlock,
                   raw_fd, attempt, rawFrom, rawArg, rawRes, devLog>>

\* time.sleep(SERIAL_DEBOUNCE_MS / 1000.0)
send_serial_sleep(p) ==
    /\ pc[p] = "s_sleep"
    /\ pc' = [pc EXCEPT ![p] = "s_open2"]
    /\ UNCHANGED <<pureVars, mainVars, data, devExists, lockFile, dlockFile, record, clock, mlock, dlock,
                   lock_fd, raw_fd, attempt, exc, retval, rawFrom, rawArg, rawRes,
                   result, devLog, errs, hist>>

\* state = json.load(f); if state["id"] != my_id: return True;
\* return send_serial_raw(port, state["data"])
send_serial_decide(p) ==
    /\ pc[p] = "s_read"
    /\ \/ /\ Readable(record)
          /\ ~token_is_mine(record, p)
          /\ retval' = [retval EXCEPT ![p] = superseded_result]
          /\ pc' = [pc EXCEPT ![p] = "s_release2"]
          /\ hist' = [hist EXCEPT !.decided = TRUE, !.superseded[p] = TRUE]
          /\ UNCHANGED <<exc, rawFrom, rawArg, errs>>
       \/ /\ Readable(record)
          /\ token_is_mine(record, p)
          /\ CallRaw(p, "normal", record.data)
          /\ hist' = [hist EXCEPT !.decided = TRUE, !.matched[p] = TRUE]
          /\ UNCHANGED <<exc, retval, errs>>
       \/ \* the file is missing or does not parse
          /\ ~Readable(record)
          /\ exc' = [exc EXCEPT ![p] = TRUE]
          /\ pc' = [pc EXCEPT ![p] = "s_release2"]
          /\ hist' = [hist EXCEPT !.decided = TRUE, !.failed[p] = TRUE]
          /\ UNCHANGED <<retval, rawFrom, rawArg, errs>>
       \/ \* open() or read() raises
          /\ MayFail
          /\ errs' = errs + 1
          /\ exc' = [exc EXCEPT ![p] = TRUE]
          /\ pc' = [pc EXCEPT ![p] = "s_release2"]
          /\ hist' = [hist EXCEPT !.decided = TRUE, !.failed[p] = TRUE]
          /\ UNCHANGED <<retval, rawFrom, rawArg>>
    /\ UNCHANGED <<pureVars, mainVars, data, devExists, lockFile, dlockFile, record, clock, mlock, dlock,
                   lock_fd, raw_fd, attempt, rawRes, result, devLog>>

\* except (IOError, OSError, json.JSONDecodeError): return send_serial_raw(port, data)
send_serial_fallback(p) ==
    /\ pc[p] = "fallback"
    /\ CallRaw(p, "fallback", fallback_payload(p))
    /\ exc' = [exc EXCEPT ![p] = FALSE]
    /\ hist' = [hist EXCEPT !.fbArg[p] = fallback_payload(p)]
    /\ UNCHANGED <<pureVars, mainVars, data, devExists, lockFile, dlockFile, record, clock, mlock, dlock,
                   lock_fd, raw_fd, attempt, retval, rawRes, result, devLog, errs>>

\* finally: if lock_fd is not None: os.close(lock_fd)   (closing the descriptor
\* drops a flock it still holds), then the fallback's return
send_serial_final(p) ==
    /\ pc[p] = "s_final"
    /\ Return(p, retval[p])
    /\ lock_fd' = [lock_fd EXCEPT ![p] = FALSE]
    /\ mlock' = IF lock_fd[p] THEN unlocked(mlock, p) ELSE mlock
    /\ UNCHANGED <<pureVars, mainVars, data, devExists, lockFile, dlockFile, record, clock, dlock,
                   raw_fd, attempt, rawFrom, rawArg, rawRes, devLog, errs, hist>>

send_serial(p) ==
    \/ send_serial_exists(p)
    \/ send_serial_open(p)
    \/ send_serial_flock(p)
    \/ send_serial_write_record(p)
    \/ send_serial_release(p)
    \/ send_serial_sleep(p)
    \/ send_serial_decide(p)
    \/ send_serial_fallback(p)
    \/ send_serial_final(p)

\* --------------------------------------------------------- send_serial_raw
\* if not os.path.exists(port): return False
send_serial_raw_exists(p) ==
    /\ pc[p] = "r_exists"
    /\ IF raw_port_exists(devExists)
       THEN /\ pc' = [pc EXCEPT ![p] = "r_open"]
            /\ UNCHANGED <<retval, rawFrom, rawArg, rawRes, attempt, hist>>
       ELSE ReturnRaw(p, FALSE)
    /\ UNCHANGED <<pureVars, mainVars, data, devExists, lockFile, dlockFile, record, clock, mlock, dlock,
                   lock_fd, raw_fd, exc, result, devLog, errs>>

\* lock_fd = os.open(lock_path, os.O_CREAT | os.O_RDWR); an OSError is caught
\* by the except clause (return False) with lock_fd still None
send_serial_raw_open(p) ==
    /\ pc[p] = "r_open"
    /\ \/ /\ lockFile' = TRUE
          /\ raw_fd' = [raw_fd EXCEPT ![p] = TRUE]
          /\ pc' = [pc EXCEPT ![p] = "r_acquire"]
          /\ UNCHANGED <<errs, retval, rawFrom, rawArg, rawRes, attempt, hist>>
       \/ /\ MayFail
          /\ errs' = errs + 1
          /\ ReturnRaw(p, FALSE)
          /\ UNCHANGED <<lockFile, raw_fd>>
    /\ UNCHANGED <<pureVars, mainVars, data, devExists, dlockFile, record, clock, mlock, dlock,
                   lock_fd, exc, result, devLog>>

\* One iteration of the loop of _acquire_lock: flock(LOCK_EX | LOCK_NB) is
\* granted, or BlockingIOError is caught and the loop sleeps and goes on, or
\* the loop ends and send_serial_raw returns False.
acquire_lock(p) ==
    /\ pc[p] = "r_acquire"
    /\ IF acquire_lock_granted(dlock)
       THEN /\ dlock' = p
            /\ pc' = [pc EXCEPT ![p] = "r_stty"]
            /\ UNCHANGED <<attempt, rawRes>>
       ELSE /\ attempt' = [attempt EXCEPT ![p] = @ + 1]
            /\ IF retries_exhausted(attempt[p] + 1)
               THEN /\ rawRes' = [rawRes EXCEPT ![p] = FALSE]
                    /\ pc' = [pc EXCEPT ![p] = "r_close"]
               ELSE UNCHANGED <<pc, rawRes>>
            /\ UNCHANGED dlock
    /\ UNCHANGED <<pureVars, mainVars, data, devExists, lockFile, dlockFile, record, clock, mlock,
                   lock_fd, raw_fd, exc, retval, rawFrom, rawArg,
                   result, devLog, errs, hist>>

\* subprocess.run(["stty", flag, port, SERIAL_BAUD_RATE], check=False, ...):
\* the exit status, zero or not, is ignored (check=False); failing to start
\* stty raises OSError
send_serial_raw_stty(p) ==
    /\ pc[p] = "r_stty"
    /\ \/ \* stty ran: whatever its exit status, the write comes next
          /\ pc' = [pc EXCEPT ![p] = "r_write"]
          /\ UNCHANGED <<rawRes, errs, hist>>
       \/ \* stty cannot be started
          /\ MayFail
          /\ errs' = errs + 1
          /\ rawRes' = [rawRes EXCEPT ![p] = FALSE]
          /\ pc' = [pc EXCEPT ![p] = "r_unlock"]
          /\ hist' = [hist EXCEPT !.stty[p] = "norun"]
    /\ UNCHANGED <<pureVars, mainVars, data, devExists, lockFile, dlockFile, record, clock, mlock, dlock,
                   lock_fd, raw_fd, attempt, exc, retval, rawFrom, rawArg,
                   result, devLog>>

\* Mutant of lock_after_flush: the device lock is dropped before the settle
\* delay.
lock_after_flush_released(holder, p) == IF holder = p THEN NoProc ELSE holder

\* The device lock after f.flush(): time.sleep(SERIAL_LOCK_RETRY_INTERVAL)
\* is inside the try block whose finally clause unlocks, so nothing changes.
lock_after_flush(holder, p) == holder

\* with open(port, "w") as f: f.write(data + "\n"); f.flush()
send_serial_raw_write(p) ==
    /\ pc[p] = "r_write"
    /\ \/ /\ devExists
          /\ devLog' = Append(devLog, rawArg[p])
          /\ pc' = [pc EXCEPT ![p] = "r_settle"]
          /\ dlock' = lock_after_flush(dlock, p)
          /\ UNCHANGED <<rawRes, errs>>
       \/ \* the device is gone: nothing reaches it
          /\ ~devExists
          /\ rawRes' = [rawRes EXCEPT ![p] = FALSE]
          /\ pc' = [pc EXCEPT ![p] = "r_unlock"]
          /\ UNCHANGED <<devLog, errs, dlock>>
       \/ \* open/write/flush raises IOError
          /\ MayFail
          /\ errs' = errs + 1
          /\ rawRes' = [rawRes EXCEPT ![p] = FALSE]
          /\ pc' = [pc EXCEPT ![p] = "r_unlock"]
          /\ UNCHANGED <<devLog, dlock>>
    /\ UNCHANGED <<pureVars, mainVars, data, devExists, lockFile, dlockFile, record, clock, mlock,
                   lock_fd, raw_fd, attempt, exc, retval, rawFrom, rawArg,
                   result, hist>>

\* time.sleep(SERIAL_LOCK_RETRY_INTERVAL); return True
send_serial_raw_settle(p) ==
    /\ pc[p] = "r_settle"
    /\ rawRes' = [rawRes EXCEPT ![p] = TRUE]
    /\ pc' = [pc EXCEPT ![p] = "r_unlock"]
    /\ UNCHANGED <<pureVars, mainVars, data, devExists, lockFile, dlockFile, record, clock, mlock, dlock,
                   lock_fd, raw_fd, attempt, exc, retval, rawFrom, rawArg,
                   result, devLog, errs, hist>>

\* finally: fcntl.flock(lock_fd, fcntl.LOCK_UN); if the unlock itself raises,
\* the except clause turns the pending return into return False
send_serial_raw_unlock(p) ==
    /\ pc[p] = "r_unlock"
    /\ pc' = [pc EXCEPT ![p] = "r_close"]
    /\ \/ /\ dlock' = unlocked(dlock, p)
          /\ UNCHANGED <<rawRes, errs>>
       \/ /\ MayFail
          /\ errs' = errs + 1
          /\ rawRes' = [rawRes EXCEPT ![p] = FALSE]
          /\ UNCHANGED dlock
    /\ UNCHANGED <<pureVars, mainVars, data, devExists, lockFile, dlockFile, record, clock, mlock,
                   lock_fd, raw_fd, attempt, exc, retval, rawFrom, rawArg,
                   result, devLog, hist>>

\* finally: if lock_fd is not None: os.close(lock_fd)   (closing the descriptor
\* drops a flock it still holds), then the return
send_serial_raw_close(p) ==
    /\ pc[p] = "r_close"
    /\ raw_fd' = [raw_fd EXCEPT ![p] = closed(raw_fd[p])]
    /\ dlock' = IF raw_fd[p] THEN unlocked(dlock, p) ELSE dlock
    /\ ReturnRaw(p, rawRes[p])
    /\ UNCHANGED <<pureVars, mainVars, data, devExists, lockFile, dlockFile, record, clock, mlock,
                   lock_fd, exc, result, devLog, errs>>

send_serial_raw(p) ==
    \/ send_serial_raw_exists(p)
    \/ send_serial_raw_open(p)
    \/ acquire_lock(p)
    \/ send_serial_raw_stty(p)
    \/ send_serial_raw_write(p)
    \/ send_serial_raw_settle(p)
    \/ send_serial_raw_unlock(p)
    \/ send_serial_raw_close(p)

\* ------------------------------------------------------------- environment
\* The USB device is unplugged: the device path disappears. It counts as one
\* of the run's faults.
Unplug ==
    /\ devExists
    /\ MayFail
    /\ errs' = errs + 1
    /\ devExists' = FALSE
    /\ UNCHANGED <<pureVars, mainVars, pc, data, lockFile, dlockFile, record, clock, mlock, dlock,
                   lock_fd, raw_fd, attempt, exc, retval, rawFrom, rawArg, rawRes,
                   result, devLog, hist>>

Next ==
    \/ \E p \in Procs : send_serial(p)
    \/ \E p \in Procs : send_serial_raw(p)
    \/ Unplug

Spec == Init /\ [][Next]_vars

\* ------------------------------------------------------------------ crashes
\* Process p is killed (abnormal termination): the kernel closes its
\* descriptors, which drops the flocks it holds. It counts as one of the run's
\* faults.
Crash(p) ==
    /\ pc[p] \notin {"done", "crashed"}
    /\ MayFail
    /\ errs' = errs + 1
    /\ pc' = [pc EXCEPT ![p] = "crashed"]
    /\ mlock' = unlocked(mlock, p)
    /\ dlock' = unlocked(dlock, p)
    /\ lock_fd' = [lock_fd EXCEPT ![p] = FALSE]
    /\ raw_fd' = [raw_fd EXCEPT ![p] = FALSE]
    /\ attempt' = [attempt EXCEPT ![p] = 0]
    /\ exc' = [exc EXCEPT ![p] = FALSE]
    /\ retval' = [retval EXCEPT ![p] = FALSE]
    /\ rawFrom' = [rawFrom EXCEPT ![p] = "none"]
    /\ rawArg' = [rawArg EXCEPT ![p] = 0]
    /\ rawRes' = [rawRes EXCEPT ![p] = FALSE]
    /\ UNCHANGED <<pureVars, mainVars, data, devExists, lockFile, dlockFile, record, clock,
                   result, devLog, hist>>

NextCrash ==
    \/ Next
    \/ \E p \in Procs : Crash(p)

SpecCrash == Init /\ [][NextCrash]_vars

\* ------------------------------------------------------ helpers of main()
\* COMMAND_HANDLERS and handle_command: the control operation the first
\* argument selects; "none" when there is no argument or no handler for it.
handler(a) ==
    IF Len(a) = 0 THEN "none"
    ELSE CASE a[1] = "--lock" -> "lock"
           [] a[1] = "--unlock" -> "unlock"
           [] a[1] = "--status" -> "status"
           [] a[1] = "--lock-mode" -> IF Len(a) > 1 THEN "set-lock-mode" ELSE "get-lock-mode"
           [] a[1] = "--reboot" -> "reboot"
           [] OTHER -> "none"

ControlOps == {"lock", "unlock", "status", "get-lock-mode", "set-lock-mode", "reboot"}

VALID_LOCK_MODES == {"first-project", "on-thinking"}

\* Mutant of mode_is_valid: the validation is dropped.
mode_is_valid_always(mode) == TRUE

\* mode not in VALID_LOCK_MODES, negated
mode_is_valid(mode) == mode \in VALID_LOCK_MODES

\* "127.0.0.1" in url or "localhost" in url
is_localhost_url(url) == \E i \in DOMAIN url : url[i] \in {"127.0.0.1", "localhost"}

\* Mutant of include_localhost: reboot tries the Desktop App as well.
include_localhost_always(o) == TRUE

\* The include_localhost argument the operation passes to try_http_targets.
include_localhost(o) == o # "reboot"

\* Mutant of http_exhausted: the serial target is tried without trying HTTP.
http_exhausted_at_once(i, urls) == TRUE

\* for url in config.http_urls: the loop is over
http_exhausted(i, urls) == i > Len(urls)

\* Mutant of returns_on_success: the loop goes on after a success.
returns_on_success_never == FALSE

\* if success: return True, result
returns_on_success == TRUE

\* Endpoint and method of the operation's HTTP request.
Endpoint(o) ==
    CASE o = "lock" -> "/lock"
      [] o = "unlock" -> "/unlock"
      [] o = "status" -> "/status"
      [] o \in {"get-lock-mode", "set-lock-mode"} -> "/lock-mode"
      [] o = "reboot" -> "/reboot"

Method(o) == IF o \in {"status", "get-lock-mode"} THEN "GET" ELSE "POST"

\* One entry of the request log: the request and how it ended.
Request(url, endpoint, method, outcome) ==
    [url |-> url, endpoint |-> endpoint, method |-> method, outcome |-> outcome]

\* serial_data = json.dumps({"command": ...}): one distinct line per operation,
\* different from every status payload.
SerialCommand(o) ==
    CASE o = "lock" -> 201
      [] o = "unlock" -> 202
      [] o = "status" -> 203
      [] o = "get-lock-mode" -> 204
      [] o = "set-lock-mode" -> 205
      [] o = "reboot" -> 206

\* What send_http_post, send_http_get and send_vibemon_api can end in: a
\* response (True, text), a URLError, TimeoutError or OSError (False, None), or
\* an exception of another class (ValueError for a URL without a scheme,
\* http.client.HTTPException, UnicodeDecodeError), which they do not catch.
HttpOutcomes ==
    {[kind |-> "ok", text |-> t] : t \in ResponseTexts}
        \cup {[kind |-> "fail", text |-> None], [kind |-> "raise", text |-> None]}

\* print(s): the text and a line terminator.
print(s) == s \o <<"nl">>

\* Number of lines a text holds.
Lines(s) == Cardinality({i \in DOMAIN s : s[i] = "nl"})

truthy(t) == t # None /\ t # <<>>

\* Mutant of print_result: the fallback is never used.
print_result_verbatim(res, fallback) == print(res)

\* _print_result: print(result if result else fallback)
print_result(res, fallback) == print(IF truthy(res) THEN res ELSE fallback)

ERR_NO_TARGET == <<"ERR_NO_TARGET">>
ERR_NO_ESP32 == <<"ERR_NO_ESP32">>
ERR_INVALID_MODE(mode) == <<"ERR_INVALID_MODE", mode>>

\* The synthesized acknowledgement of lock, unlock, lock-mode <mode>, reboot
\* and the notice status and lock-mode print after a serial submission.
Ack(o) == <<"ack", o>>
Info(o) == <<"info", o>>

\* Mutant of no_target_error: every operation prints the generic variant.
no_target_error_generic(o) == ERR_NO_TARGET

\* The error an operation prints when no target succeeded.
no_target_error(o) == IF o = "reboot" THEN ERR_NO_ESP32 ELSE ERR_NO_TARGET

\* What a control operation prints once try_all_targets (or, for status and
\* lock-mode without argument, try_http_targets then try_serial_target) is over.
printed(o, ok, res) ==
    IF ~ok THEN print(no_target_error(o))
    ELSE IF o \in {"status", "get-lock-mode"}
         THEN (IF res = None THEN print(Info(o)) ELSE print(res))
         ELSE print_result(res, Ack(o))

\* Mutant of exit_status: the process always exits 0.
exit_status_zero(ok) == 0

\* sys.exit(0 if result else 1)
exit_status(ok) == IF ok THEN 0 ELSE 1

\* Code point of a character (ord).
Ord(c) ==
    CASE c = "*" -> 42 [] c = "/" -> 47
      [] c = "0" -> 48 [] c = "1" -> 49 [] c = "2" -> 50
      [] c = "A" -> 65 [] c = "B" -> 66 [] c = "C" -> 67 [] c = "M" -> 77
      [] c = "S" -> 83 [] c = "U" -> 85
      [] c = "d" -> 100 [] c = "e" -> 101 [] c = "t" -> 116
      [] c = "v" -> 118 [] c = "y" -> 121

\* str < str: by code point, a proper prefix first.
RECURSIVE LexLess(_, _)
LexLess(a, b) ==
    IF a = <<>> THEN b # <<>>
    ELSE IF b = <<>> THEN FALSE
    ELSE IF Head(a) = Head(b) THEN LexLess(Tail(a), Tail(b))
    ELSE Ord(Head(a)) < Ord(Head(b))

\* fnmatch of one path against a pattern: "*" stands for any run of
\* characters of one path component.
RECURSIVE Match(_, _)
Match(pat, path) ==
    IF pat = <<>> THEN path = <<>>
    ELSE IF Head(pat) = "*"
         THEN \/ Match(Tail(pat), path)
              \/ path # <<>> /\ Head(path) # "/" /\ Match(pat, Tail(path))
         ELSE path # <<>> /\ Head(path) = Head(pat) /\ Match(Tail(pat), Tail(path))

\* glob.glob(port_pattern): the existing entries that match, in no
\* particular order.
Glob(pattern, fs) == {e \in fs : Match(pattern, e)}

\* "*" in port_pattern
HasWildcard(pattern) == \E i \in DOMAIN pattern : pattern[i] = "*"

\* Mutant of sorted: descending order.
RECURSIVE sorted_descending(_)
sorted_descending(S) ==
    IF S = {} THEN <<>>
    ELSE LET m == CHOOSE x \in S : \A y \in S : y = x \/ LexLess(y, x)
         IN <<m>> \o sorted_descending(S \ {m})

\* sorted(matches): ascending.
RECURSIVE sorted(_)
sorted(S) ==
    IF S = {} THEN <<>>
    ELSE LET m == CHOOSE x \in S : \A y \in S : y = x \/ LexLess(x, y)
         IN <<m>> \o sorted(S \ {m})

\* resolve_serial_port, given the entries the file system holds.
resolve_serial_port(port_pattern, fs) ==
    IF ~truthy(port_pattern) THEN None
    ELSE IF HasWildcard(port_pattern)
         THEN (IF sorted(Glob(port_pattern, fs)) # <<>>
               THEN sorted(Glob(port_pattern, fs))[1]
               ELSE None)
         ELSE port_pattern

\* The file system as the invocation sees it: the device node or nothing.
DevDir(exists) == IF exists THEN {Device} ELSE {}

\* get_desktop_url: the first localhost URL, <<>> for None.
get_desktop_url(urls) ==
    IF \E i \in DOMAIN urls : is_localhost_url(urls[i])
    THEN urls[CHOOSE i \in DOMAIN urls :
                 /\ is_localhost_url(urls[i])
                 /\ \A j \in 1..(i - 1) : ~is_localhost_url(urls[j])]
    ELSE <<>>

VibemonUrl == <<"https://", "vibemon.example">>

\* Mutant of api_configured: the URL alone is enough.
api_configured_by_url(c) == c.vibemon_url

\* config.vibemon_url and config.vibemon_token
api_configured(c) == c.vibemon_url /\ c.vibemon_token

\* Mutant of names_project: the project of the payload is not looked at.
names_project_always(project) == TRUE

\* payload.get("project"): truthy for a non-empty name.
names_project(project) == project # ""

\* The project name main() puts in the payload: get_project_name (Claude)
\* and `os.path.basename(...) or "default"` (Kiro) never give an empty one.
ProjectName == "default"

\* The task list send_to_all builds: one task per HTTP URL in configured
\* order, the serial task, the VibeMon API task.
BuildTasks(c, exists, project) ==
    [i \in 1..Len(c.http_urls) |-> [kind |-> "http", url |-> c.http_urls[i]]]
    \o (IF truthy(c.serial_port) /\ truthy(resolve_serial_port(c.serial_port, DevDir(exists)))
        THEN <<[kind |-> "serial", url |-> <<>>]>> ELSE <<>>)
    \o (IF api_configured(c) /\ names_project(project)
        THEN <<[kind |-> "api", url |-> VibemonUrl]>> ELSE <<>>)

\* Mutant of max_workers: one worker for all tasks.
max_workers_one(t) == 1

\* ThreadPoolExecutor(max_workers=len(tasks))
max_workers(t) == Len(t)

Finished == {"ok", "failed", "raised"}

\* Task k has a worker thread: fewer than max_workers tasks submitted before
\* it are still running.
HasWorker(k) ==
    Cardinality({j \in 1..(k - 1) : tstate[j] = "running"}) < max_workers(tasks)

\* Mutant of task_exception_caught: the joiner lets the exception through.
task_exception_caught_never == FALSE

\* except Exception as e: debug_log(...) around future.result()
task_exception_caught == TRUE

\* An exception nobody catches ends the process: traceback on standard error,
\* exit status 1.
Uncaught(where) ==
    /\ mpc' = "exit"
    /\ exitCode' = 1
    /\ uncaught' = where

\* send_serial(port, d) called by this invocation.
CallSerial(d) ==
    /\ pc' = [pc EXCEPT ![MainProc] = "start"]
    /\ data' = [data EXCEPT ![MainProc] = d]
    /\ UNCHANGED <<devExists, lockFile, dlockFile, record, clock, mlock, dlock,
                   lock_fd, raw_fd, attempt, exc, retval, rawFrom, rawArg, rawRes,
                   result, devLog, errs, hist>>

\* ------------------------------------------------------------------ main()
\* The invocation starts with its command line and configuration given; the
\* serial layer is idle until the invocation submits something.
InitMain ==
    /\ pc = [p \in Procs |-> "idle"]
    /\ data = [p \in Procs |-> PayloadOf(p)]
    /\ devExists \in BOOLEAN
    /\ lockFile = FALSE
    /\ dlockFile = FALSE
    /\ record = NoRecord
    /\ clock = 0
    /\ mlock = NoProc
    /\ dlock = NoProc
    /\ lock_fd = [p \in Procs |-> FALSE]
    /\ raw_fd = [p \in Procs |-> FALSE]
    /\ attempt = [p \in Procs |-> 0]
    /\ exc = [p \in Procs |-> FALSE]
    /\ retval = [p \in Procs |-> FALSE]
    /\ rawFrom = [p \in Procs |-> "none"]
    /\ rawArg = [p \in Procs |-> 0]
    /\ rawRes = [p \in Procs |-> FALSE]
    /\ result = [p \in Procs |-> FALSE]
    /\ devLog = <<>>
    /\ errs = 0
    /\ hist = HistInit
    /\ NoCall
    /\ \E i \in Invocations : hook = i[1] /\ argv = i[2]
    /\ config \in Configs
    /\ event = ""
    /\ mpc = "main"
    /\ op = "none"
    /\ urlIdx = 1
    /\ success = FALSE
    /\ result_text = None
    /\ net = <<>>
    /\ spawned = FALSE
    /\ stdout = <<>>
    /\ exitCode = Running
    /\ tasks = <<>>
    /\ tstate = <<>>
    /\ handled = {}
    /\ sent_to_all = FALSE
    /\ uncaught = "none"

\* Mutant of command_for: a first argument without handler runs get_status.
command_for_default_status(h, a) ==
    IF Len(a) > 0 /\ handler(a) = "none" THEN "status" ELSE handler(a)

\* main(): with an argument (in the Kiro hook: one that starts with "--"),
\* handle_command looks its handler up; the operation is "none" when
\* handle_command is not called or returns None.
command_for(h, a) ==
    IF Len(a) > 0 /\ (h = "claude" \/ a[1] \in Dashed) THEN handler(a) ELSE "none"

\* main() up to the handler: a handler found runs the operation, otherwise
\* main goes on to the status event.
main_handle_command ==
    /\ mpc = "main"
    /\ op' = command_for(hook, argv)
    /\ mpc' = CASE command_for(hook, argv) = "none" -> "read_input"
                [] command_for(hook, argv) = "set-lock-mode" -> "validate"
                [] OTHER -> "http"
    /\ UNCHANGED <<pureVars, hook, argv, config, event, urlIdx, success, result_text, net, spawned,
                   stdout, exitCode, tasks, tstate, handled, sent_to_all, uncaught>>
    /\ UNCHANGED serialVars

\* set_lock_mode: an invalid mode prints the error and returns False, and
\* main exits with 1.
set_lock_mode_validate ==
    /\ mpc = "validate"
    /\ IF mode_is_valid(argv[2])
       THEN /\ mpc' = "http"
            /\ UNCHANGED <<stdout, exitCode>>
       ELSE /\ stdout' = stdout \o print(ERR_INVALID_MODE(argv[2]))
            /\ exitCode' = exit_status(FALSE)
            /\ mpc' = "exit"
    /\ UNCHANGED <<pureVars, hook, argv, config, event, op, urlIdx, success, result_text, net, spawned,
                   tasks, tstate, handled, sent_to_all, uncaught>>
    /\ UNCHANGED serialVars

\* One iteration of the loop of try_http_targets, or its end.
try_http_targets ==
    /\ mpc = "http"
    /\ IF http_exhausted(urlIdx, config.http_urls)
       THEN /\ mpc' = "serial"
            /\ success' = FALSE
            /\ result_text' = None
            /\ UNCHANGED <<urlIdx, net, exitCode, uncaught>>
       ELSE IF ~include_localhost(op) /\ is_localhost_url(config.http_urls[urlIdx])
       THEN /\ urlIdx' = urlIdx + 1
            /\ UNCHANGED <<mpc, success, result_text, net, exitCode, uncaught>>
       ELSE \E out \in HttpOutcomes :
            /\ net' = Append(net, Request(config.http_urls[urlIdx], Endpoint(op), Method(op), out.kind))
            /\ CASE out.kind = "ok" ->
                      /\ success' = TRUE
                      /\ result_text' = out.text
                      /\ urlIdx' = urlIdx + 1
                      /\ mpc' = IF returns_on_success THEN "finish" ELSE "http"
                      /\ UNCHANGED <<exitCode, uncaught>>
                 [] out.kind = "fail" ->
                      /\ urlIdx' = urlIdx + 1
                      /\ UNCHANGED <<mpc, success, result_text, exitCode, uncaught>>
                 [] out.kind = "raise" ->
                      /\ Uncaught("command")
                      /\ UNCHANGED <<urlIdx, success, result_text>>
    /\ UNCHANGED <<pureVars, hook, argv, config, event, op, spawned, stdout, tasks, tstate, handled, sent_to_all>>
    /\ UNCHANGED serialVars

\* try_serial_target up to the call of send_serial.
try_serial_target ==
    /\ mpc = "serial"
    /\ IF ~truthy(config.serial_port)
          \/ ~truthy(resolve_serial_port(config.serial_port, DevDir(devExists)))
       THEN /\ mpc' = "finish"
            /\ UNCHANGED serialVars
       ELSE /\ mpc' = "serial_wait"
            /\ CallSerial(SerialCommand(op))
    /\ UNCHANGED <<pureVars, hook, argv, config, event, op, urlIdx, success, result_text, net, spawned,
                   stdout, exitCode, tasks, tstate, handled, sent_to_all, uncaught>>

\* send_serial has returned to try_serial_target.
try_serial_target_return ==
    /\ mpc = "serial_wait"
    /\ pc[MainProc] = "done"
    /\ success' = result[MainProc]
    /\ mpc' = "finish"
    /\ UNCHANGED <<pureVars, hook, argv, config, event, op, urlIdx, result_text, net, spawned,
                   stdout, exitCode, tasks, tstate, handled, sent_to_all, uncaught>>
    /\ UNCHANGED serialVars

\* The operation prints its line and returns; main exits with its status.
command_finish ==
    /\ mpc = "finish"
    /\ stdout' = stdout \o printed(op, success, result_text)
    /\ exitCode' = exit_status(success)
    /\ mpc' = "exit"
    /\ UNCHANGED <<pureVars, hook, argv, config, event, op, urlIdx, success, result_text, net, spawned,
                   tasks, tstate, handled, sent_to_all, uncaught>>
    /\ UNCHANGED serialVars

\* The Claude hook: read_input, parse_json, get_state, build_payload. The Kiro
\* hook: the event type is the first argument, and without one (none, or an
\* empty one) main exits with 0 before send_to_all.
main_read_input ==
    /\ mpc = "read_input"
    /\ IF hook = "claude"
       THEN /\ event' \in Events
            /\ mpc' = "send_to_all"
            /\ UNCHANGED exitCode
       ELSE IF Len(argv) = 0 \/ argv[1] = ""
       THEN /\ mpc' = "exit"
            /\ exitCode' = 0
            /\ UNCHANGED event
       ELSE /\ event' = argv[1]
            /\ mpc' = "send_to_all"
            /\ UNCHANGED exitCode
    /\ UNCHANGED <<pureVars, hook, argv, config, op, urlIdx, success, result_text, net, spawned,
                   stdout, tasks, tstate, handled, sent_to_all, uncaught>>
    /\ UNCHANGED serialVars

\* Mutant of is_start: every event counts as a start event.
is_start_always(h, e) == TRUE

\* is_start = event_name == "SessionStart" (Claude), event_type ==
\* "promptSubmit" (Kiro)
is_start(h, e) == IF h = "claude" THEN e = "SessionStart" ELSE e = "promptSubmit"

\* send_to_all: whether the launch pre-step runs.
send_to_all_begin ==
    /\ mpc = "send_to_all"
    /\ sent_to_all' = TRUE
    /\ mpc' = IF /\ get_desktop_url(config.http_urls) # <<>>
                 /\ is_start(hook, event)
                 /\ config.auto_launch
              THEN "health" ELSE "build"
    /\ UNCHANGED <<pureVars, hook, argv, config, event, op, urlIdx, success, result_text, net, spawned,
                   stdout, exitCode, tasks, tstate, handled, uncaught>>
    /\ UNCHANGED serialVars

\* is_monitor_running(desktop_url)
is_monitor_running ==
    /\ mpc = "health"
    /\ \E out \in HttpOutcomes :
         /\ net' = Append(net, Request(get_desktop_url(config.http_urls), "/health", "GET", out.kind))
         /\ CASE out.kind = "ok" -> mpc' = "show" /\ UNCHANGED <<exitCode, uncaught>>
           [] out.kind = "fail" -> mpc' = "launch" /\ UNCHANGED <<exitCode, uncaught>>
           [] out.kind = "raise" -> Uncaught("prestep")
    /\ UNCHANGED <<pureVars, hook, argv, config, event, op, urlIdx, success, result_text, spawned,
                   stdout, tasks, tstate, handled, sent_to_all>>
    /\ UNCHANGED serialVars

\* launch_desktop: spawn the helper and wait; a failure to spawn is caught.
launch_desktop ==
    /\ mpc = "launch"
    /\ spawned' \in BOOLEAN
    /\ mpc' = "show"
    /\ UNCHANGED <<pureVars, hook, argv, config, event, op, urlIdx, success, result_text, net,
                   stdout, exitCode, tasks, tstate, handled, sent_to_all, uncaught>>
    /\ UNCHANGED serialVars

\* show_monitor_window(desktop_url)
show_monitor_window ==
    /\ mpc = "show"
    /\ \E out \in HttpOutcomes :
         /\ net' = Append(net, Request(get_desktop_url(config.http_urls), "/show", "POST", out.kind))
         /\ IF out.kind = "raise"
            THEN Uncaught("prestep")
            ELSE mpc' = "build" /\ UNCHANGED <<exitCode, uncaught>>
    /\ UNCHANGED <<pureVars, hook, argv, config, event, op, urlIdx, success, result_text, spawned,
                   stdout, tasks, tstate, handled, sent_to_all>>
    /\ UNCHANGED serialVars

\* send_to_all: resolve the serial port, build the task list, return at once
\* when it is empty; main then exits with 0.
send_to_all_build ==
    /\ mpc = "build"
    /\ tasks' = BuildTasks(config, devExists, ProjectName)
    /\ tstate' = [k \in 1..Len(BuildTasks(config, devExists, ProjectName)) |-> "pending"]
    /\ IF BuildTasks(config, devExists, ProjectName) = <<>>
       THEN mpc' = "exit" /\ exitCode' = 0
       ELSE mpc' = "submit" /\ UNCHANGED exitCode
    /\ UNCHANGED <<pureVars, hook, argv, config, event, op, urlIdx, success, result_text, net, spawned,
                   stdout, handled, sent_to_all, uncaught>>
    /\ UNCHANGED serialVars

\* executor.submit(task) for the next task of the list.
executor_submit ==
    /\ mpc = "submit"
    /\ \E k \in DOMAIN tasks :
         /\ tstate[k] = "pending"
         /\ \A j \in 1..(k - 1) : tstate[j] # "pending"
         /\ tstate' = [tstate EXCEPT ![k] = "running"]
         /\ mpc' = IF k = Len(tasks) THEN "join" ELSE "submit"
    /\ UNCHANGED <<pureVars, hook, argv, config, event, op, urlIdx, success, result_text, net, spawned,
                   stdout, exitCode, tasks, handled, sent_to_all, uncaught>>
    /\ UNCHANGED serialVars

\* An HTTP task (send_http_post(u, "/status", payload_str)[0]) or the VibeMon
\* API task (send_vibemon_api) runs in its worker thread.
task_http(k) ==
    /\ tasks[k].kind \in {"http", "api"}
    /\ tstate[k] = "running"
    /\ HasWorker(k)
    /\ \E out \in HttpOutcomes :
         /\ net' = Append(net, Request(tasks[k].url, "/status", "POST", out.kind))
         /\ tstate' = [tstate EXCEPT ![k] = CASE out.kind = "ok" -> "ok"
                                           [] out.kind = "fail" -> "failed"
                                           [] out.kind = "raise" -> "raised"]
    /\ UNCHANGED <<pureVars, hook, argv, config, event, mpc, op, urlIdx, success, result_text, spawned,
                   stdout, exitCode, tasks, handled, sent_to_all, uncaught>>
    /\ UNCHANGED serialVars

\* The serial task calls send_serial(p, payload_str) in its worker thread.
task_serial_begin(k) ==
    /\ tasks[k].kind = "serial"
    /\ tstate[k] = "running"
    /\ HasWorker(k)
    /\ pc[MainProc] = "idle"
    /\ CallSerial(PayloadOf(MainProc))
    /\ UNCHANGED <<pureVars, mainVars>>

\* send_serial has returned to the serial task.
task_serial_end(k) ==
    /\ tasks[k].kind = "serial"
    /\ tstate[k] = "running"
    /\ pc[MainProc] = "done"
    /\ tstate' = [tstate EXCEPT ![k] = IF result[MainProc] THEN "ok" ELSE "failed"]
    /\ UNCHANGED <<pureVars, hook, argv, config, event, mpc, op, urlIdx, success, result_text, net, spawned,
                   stdout, exitCode, tasks, handled, sent_to_all, uncaught>>
    /\ UNCHANGED serialVars

\* for future in as_completed(...): future.result() of a finished task; what
\* the task raised is caught and logged.
as_completed(k) ==
    /\ mpc = "join"
    /\ tstate[k] \in Finished
    /\ k \notin handled
    /\ IF tstate[k] = "raised" /\ ~task_exception_caught
       THEN /\ Uncaught("task")
            /\ UNCHANGED handled
       ELSE /\ handled' = handled \cup {k}
            /\ UNCHANGED <<mpc, exitCode, uncaught>>
    /\ UNCHANGED <<pureVars, hook, argv, config, event, op, urlIdx, success, result_text, net, spawned,
                   stdout, tasks, tstate, sent_to_all>>
    /\ UNCHANGED serialVars

\* Every future has been handled: the executor shuts down, send_to_all
\* returns and main exits with 0.
send_to_all_return ==
    /\ mpc = "join"
    /\ handled = DOMAIN tasks
    /\ mpc' = "exit"
    /\ exitCode' = 0
    /\ UNCHANGED <<pureVars, hook, argv, config, event, op, urlIdx, success, result_text, net, spawned,
                   stdout, tasks, tstate, handled, sent_to_all, uncaught>>
    /\ UNCHANGED serialVars

NextMain ==
    \/ main_handle_command
    \/ set_lock_mode_validate
    \/ try_http_targets
    \/ try_serial_target
    \/ try_serial_target_return
    \/ command_finish
    \/ main_read_input
    \/ send_to_all_begin
    \/ is_monitor_running
    \/ launch_desktop
    \/ show_monitor_window
    \/ send_to_all_build
    \/ executor_submit
    \/ \E k \in DOMAIN tasks : task_http(k)
    \/ \E k \in DOMAIN tasks : task_serial_begin(k)
    \/ \E k \in DOMAIN tasks : task_serial_end(k)
    \/ \E k \in DOMAIN tasks : as_completed(k)
    \/ send_to_all_return
    \/ \E p \in Procs : send_serial(p)
    \/ \E p \in Procs : send_serial_raw(p)
    \/ Unplug

SpecMain == InitMain /\ [][NextMain]_vars

\* ------------------------------------------------------------- vocabulary
Done(p) == pc[p] = "done"

\* No call is in progress: every process has returned, was killed, or has
\* not called send_serial yet.
Quiescent == \A p \in Procs : pc[p] \in {"start", "done", "crashed"}

\* The processes whose record overwrite happened.
Recorded == {p \in Procs : hist.recTime[p] > 0}

\* Number of lines on the device carrying payload d.
Writes(d) == Cardinality({i \in 1..Len(devLog) : devLog[i] = d})

\* Process p is inside the physical-write section of send_serial_raw.
InWriteSection(p) == pc[p] \in {"r_stty", "r_write", "r_settle"}

\* ----------------------------------------------------------------- claims
\* C1: N >= 1 concurrent send_serial calls to one existing device whose
\* record overwrites all precede every post-sleep decision, with no fault:
\* once they have all returned, exactly one line was written to the device
\* and it is the payload of the submission whose token the record holds.
C1_OneWriteOfLastRecorded ==
    (Quiescent /\ errs = 0 /\ ~hist.late /\ Recorded # {})
        => /\ Len(devLog) = 1
           /\ record.id \in Recorded
           /\ hist.recTime[record.id] = clock
           /\ devLog[1] = data[record.id]

C1_Witness ==
    /\ Quiescent /\ errs = 0 /\ ~hist.late
    /\ Recorded = Procs
    /\ Len(devLog) = 1
    /\ record.id # 1

\* C2: a process is inside the physical-write section of send_serial_raw only
\* while it holds the device lock, so at most one process is inside it,
\* whether the debounced path or the fallback led there.
C2_WriteUnderDeviceLock ==
    /\ \A p \in Procs : InWriteSection(p) => dlock = p
    /\ Cardinality({p \in Procs : InWriteSection(p)}) <= 1

C2_Witness ==
    \E p, q \in Procs :
        /\ pc[p] = "r_write" /\ rawFrom[p] = "fallback"
        /\ pc[q] = "r_acquire" /\ rawFrom[q] = "normal" /\ attempt[q] > 0


\* C3 as claimed: once every call has returned, a call that returned true
\* because it read another token has been followed by a successful physical
\* write of a payload recorded after its own.
C3_Original ==
    (\A r \in Procs : Done(r)) =>
        \A p \in Procs :
            (hist.superseded[p] /\ result[p] /\ Writes(data[p]) = 0) =>
                \E q \in Procs : /\ hist.recTime[q] > hist.recTime[p]
                                 /\ Writes(data[q]) > 0

\* C3 as amended: a call that read another token is followed by a submission
\* recorded after its own which, by the time it returns, has handed its payload
\* to send_serial_raw (through the token match or through the fallback); that
\* write is attempted, not guaranteed.
C3_LaterSubmissionAttemptsWrite ==
    \A p \in Procs :
        hist.superseded[p] =>
            \E q \in Procs :
                /\ hist.recTime[q] > hist.recTime[p]
                /\ Done(q) => (hist.matched[q] \/ hist.fbArg[q] = data[q])

C3_Witness ==
    \E p, q \in Procs :
        /\ \A r \in Procs : Done(r)
        /\ hist.superseded[p] /\ result[p] /\ Writes(data[p]) = 0
        /\ hist.recTime[q] > hist.recTime[p]
        /\ hist.matched[q] /\ ~result[q] /\ Writes(data[q]) = 0

C5_FailureFallsBackToDirectWrite ==
    \A p \in Procs :
        /\ hist.failed[p] =>
               \/ pc[p] \in {"s_release1", "s_release2"} /\ exc[p]
               \/ pc[p] = "fallback"
               \/ hist.fbArg[p] # 0
        /\ hist.fbArg[p] # 0 =>
               /\ hist.failed[p]
               /\ hist.fbArg[p] = data[p]
               /\ \/ rawFrom[p] = "fallback" /\ rawArg[p] = data[p] /\ hist.fbRes[p] = "none"
                  \/ pc[p] = "s_final" /\ hist.fbRes[p] = (IF retval[p] THEN "true" ELSE "false")
                  \/ Done(p) /\ hist.fbRes[p] = (IF result[p] THEN "true" ELSE "false")

C5_Witness ==
    \E p \in Procs :
        /\ Done(p) /\ hist.failed[p] /\ hist.superseded[p]
        /\ hist.fbRes[p] = "true" /\ result[p]
        /\ record.id # p /\ Writes(data[p]) = 1

\* C6: send_serial_raw called while the device path does not exist returns
\* false at once: nothing is written, and the device-lock file is neither
\* created nor opened (no descriptor, no lock).
C6_MissingDeviceTouchesNothing ==
    [][\A p \in Procs :
          (pc[p] = "r_exists" /\ ~devExists /\ pc'[p] # pc[p]) =>
              /\ pc'[p] \in {"s_release2", "s_final"}
              /\ retval'[p] = FALSE
              /\ devLog' = devLog
              /\ lockFile' = lockFile
              /\ raw_fd'[p] = FALSE /\ raw_fd[p] = FALSE
              /\ dlock' = dlock]_vars

C6_Witness ==
    \E p \in Procs :
        /\ pc[p] = "s_release2" /\ hist.matched[p] /\ ~retval[p]
        /\ ~devExists /\ ~lockFile /\ errs = 1
        /\ devLog = <<>>

\* C7: _acquire_lock makes at most SERIAL_LOCK_MAX_RETRIES attempts; when the
\* last one fails send_serial_raw goes straight to closing its descriptor and
\* returns false, having written nothing and holding no lock; and no
\* descriptor of send_serial_raw stays open once the call has returned.
C7_BoundedRetriesThenFalse ==
    /\ [](\A p \in Procs :
            /\ attempt[p] <= SERIAL_LOCK_MAX_RETRIES
            /\ pc[p] = "r_acquire" => attempt[p] < SERIAL_LOCK_MAX_RETRIES
            /\ raw_fd[p] => pc[p] \in {"r_acquire", "r_stty", "r_write",
                                       "r_settle", "r_unlock", "r_close"})
    /\ [][\A p \in Procs :
            /\ (pc[p] = "r_acquire" /\ pc'[p] = "r_close") =>
                   /\ attempt'[p] = SERIAL_LOCK_MAX_RETRIES
                   /\ dlock \notin {NoProc, p} /\ dlock' = dlock
                   /\ rawRes'[p] = FALSE
                   /\ devLog' = devLog
            /\ (pc[p] = "r_close" /\ pc'[p] # pc[p]) =>
                   /\ retval'[p] = rawRes[p]
                   /\ raw_fd'[p] = FALSE
                   /\ devLog' = devLog]_vars

C7_Witness ==
    \E p \in Procs :
        /\ pc[p] = "r_close" /\ attempt[p] = SERIAL_LOCK_MAX_RETRIES
        /\ ~rawRes[p] /\ raw_fd[p]
        /\ dlock \notin {NoProc, p}
        /\ Writes(rawArg[p]) = 0

\* C8: a process holds the device lock only between a granted attempt of
\* _acquire_lock and the unlock (or, should that fail, the close) of the
\* finally clauses; on every way out of send_serial_raw it holds it no more.
C8_NoDeviceLockAfterReturn ==
    \A p \in Procs :
        dlock = p => pc[p] \in {"r_stty", "r_write", "r_settle", "r_unlock", "r_close"}

\* p alone has run; its write under the device lock failed with an I/O error
\* and it is back in send_serial.
C8_Witness ==
    \E p \in Procs :
        /\ Recorded = {p} /\ hist.matched[p]
        /\ pc[p] = "s_release2" /\ ~retval[p]
        /\ lockFile /\ devExists /\ devLog = <<>>
        /\ dlock = NoProc

\* A step of p's own call that needs neither another process to move nor a
\* fault to happen.
CanStepAlone(p) == ENABLED ((send_serial(p) \/ send_serial_raw(p)) /\ errs' = errs)

Live(p) == pc[p] \notin {"done", "crashed"}

\* C9 as claimed: no call ever waits on another process: wherever it stands,
\* it can go on by itself (retry, give up or time out), so it returns after a
\* bounded number of its own steps however long the others hold the locks.
C9_NoUnboundedBlocking ==
    \A p \in Procs : Live(p) => CanStepAlone(p)

SerialUntouched ==
    /\ pc[MainProc] = "idle"
    /\ ~lockFile
    /\ ~dlockFile
    /\ record = NoRecord
    /\ devLog = <<>>

Exited == mpc = "exit"

\* No HTTP URL, no serial port, no complete VibeMon API configuration.
NoTargets ==
    /\ config.http_urls = <<>>
    /\ config.serial_port = <<>>
    /\ ~(config.vibemon_url /\ config.vibemon_token)

\* ---------------------------------------------------------------------- C11
\* C11: send_to_all with no HTTP URL, no serial port and no VibeMon API
\* URL/token issues no HTTP request, spawns no helper, touches neither the
\* serial device nor its debounce and lock files, builds no task and submits
\* none, and returns: the process exits with 0 right after the task list is
\* found empty.
C11_NoTargetsNoIO ==
    (sent_to_all /\ NoTargets) =>
        /\ net = <<>>
        /\ ~spawned
        /\ SerialUntouched
        /\ tasks = <<>> /\ tstate = <<>> /\ handled = {}
        /\ mpc \in {"build", "exit"}
        /\ mpc = "build" => ENABLED send_to_all_build
        /\ Exited => (exitCode = 0 /\ uncaught = "none" /\ stdout = <<>>)

\* send_to_all has returned with nothing configured, on a start event with
\* auto-launch on and half a VibeMon API configuration.
C11_Witness ==
    /\ sent_to_all /\ NoTargets /\ Exited
    /\ event = "SessionStart"
    /\ config.auto_launch
    /\ config.vibemon_url

\* ---------------------------------------------------------------------- C12
\* C12: send_to_all starts all of its tasks concurrently: submitting never
\* waits for a task, and every submitted task that has not finished has a
\* worker thread of its own whatever its siblings are doing; and send_to_all
\* returns (the process exits) only once every task of the list has finished
\* (succeeded, returned failure or raised) and the serial call, if one was
\* made, has returned.
C12_AllStartedAllJoined ==
    /\ mpc = "submit" => ENABLED executor_submit
    /\ \A k \in DOMAIN tasks : tstate[k] = "running" => HasWorker(k)
    /\ \A k \in DOMAIN tasks :
         (tstate[k] = "running" /\ tasks[k].kind # "serial") => ENABLED task_http(k)
    /\ Exited =>
         /\ \A k \in DOMAIN tasks : tstate[k] \in Finished
         /\ pc[MainProc] \in {"idle", "done"}

\* Two tasks are running at the same moment, all submitted and none finished.
C12_Witness ==
    /\ mpc = "join"
    /\ Len(tasks) >= 2
    /\ \A k \in DOMAIN tasks : tstate[k] = "running"

\* ---------------------------------------------------------------------- C13
\* C13: in send_to_all a task that has failed or raised stops no sibling: a
\* sibling still running keeps its worker and can take its step; nothing a
\* task returned or raised reaches the caller: no exception leaves the
\* as_completed loop, and once tasks were started the process exits with 0
\* and an empty standard output whatever the tasks ended in.
C13_TaskFailuresIsolated ==
    /\ uncaught # "task"
    /\ \A j, k \in DOMAIN tasks :
         (tstate[j] \in {"failed", "raised"} /\ tstate[k] = "running") =>
             /\ HasWorker(k)
             /\ tasks[k].kind # "serial" => ENABLED task_http(k)
             /\ (tasks[k].kind = "serial" /\ pc[MainProc] = "idle") => ENABLED task_serial_begin(k)
    /\ (mpc = "join" /\ \E k \in DOMAIN tasks : tstate[k] \in Finished /\ k \notin handled) =>
         \E k \in DOMAIN tasks : ENABLED as_completed(k)
    /\ (Exited /\ tasks # <<>>) =>
         /\ exitCode = 0
         /\ stdout = <<>>
         /\ handled = DOMAIN tasks

\* send_to_all has returned although one task raised and another failed.
C13_Witness ==
    /\ Exited /\ exitCode = 0
    /\ \E j, k \in DOMAIN tasks : tstate[j] = "raised" /\ tstate[k] = "failed"

\* ---------------------------------------------------------------------- C14
\* Some HTTP target has answered the control operation.
HttpAnswered == \E i \in DOMAIN net : net[i].outcome = "ok"

\* The requests of a control operation so far are one request per configured
\* URL, in configured order, every one failed except the last, which
\* succeeded; nothing of the serial layer was touched and the operation is
\* about to print or has printed.
FirstSuccessStops ==
    /\ Len(net) <= Len(config.http_urls)
    /\ \A i \in DOMAIN net :
         net[i] = Request(config.http_urls[i], Endpoint(op), Method(op),
                          IF i < Len(net) THEN "fail" ELSE "ok")
    /\ SerialUntouched
    /\ mpc \in {"finish", "exit"}
    /\ success
    /\ result_text \in ResponseTexts

\* C14 as stated: once an HTTP target has succeeded for lock, unlock, status
\* or lock-mode, no later target is contacted, the serial target is not used,
\* and the line printed is that target's response text.
C14_Original ==
    (op \in ControlOps \ {"reboot"} /\ HttpAnswered) =>
        /\ FirstSuccessStops
        /\ Exited => (stdout = print(result_text) /\ exitCode = 0)

\* C14, amended: the HTTP targets are contacted one at a time in configured
\* order until the first succeeds; no later target is contacted and the
\* serial target is not used. status and lock-mode (query) print that
\* target's response text; lock, unlock and lock-mode <mode> print it only
\* when it is not empty, and their synthesized acknowledgement otherwise.
C14_FirstHttpSuccessAnswers ==
    (op \in ControlOps \ {"reboot"} /\ HttpAnswered) =>
        /\ FirstSuccessStops
        /\ Exited =>
             /\ exitCode = 0
             /\ stdout = print(IF op \in {"status", "get-lock-mode"} \/ result_text # <<>>
                               THEN result_text ELSE Ack(op))

\* lock with two HTTP targets configured: the first answered, the second was
\* never contacted, the answer was printed.
C14_Witness ==
    /\ Exited /\ op = "lock"
    /\ Len(config.http_urls) = 2
    /\ Len(net) = 1
    /\ net[1].outcome = "ok"
    /\ stdout = print(<<"{..}">>)

\* ---------------------------------------------------------------------- C15
\* The control operation has called send_serial.
SerialSubmitted == op \in ControlOps /\ pc[MainProc] # "idle"

NotLocalhost(url) == ~is_localhost_url(url)

\* The URLs an operation may send its request to: all of them, except that
\* reboot leaves the localhost ones out.
AttemptSet(o) ==
    IF o = "reboot" THEN SelectSeq(config.http_urls, NotLocalhost) ELSE config.http_urls

\* C15: a control operation calls send_serial only after every HTTP target
\* it may use has been tried, in order, and has failed (or none is
\* configured); the command goes through send_serial, so a command line
\* reaches the device only after the call found its own token in the debounce
\* record or fell back; and when send_serial has returned true the operation
\* prints its synthesized line (acknowledgement, or the notice of status and
\* lock-mode) and the process exits with 0.
C15_SerialAfterHttpFailed ==
    SerialSubmitted =>
        /\ [i \in DOMAIN net |-> net[i].url] = AttemptSet(op)
        /\ \A i \in DOMAIN net :
             /\ net[i].outcome = "fail"
             /\ net[i].endpoint = Endpoint(op)
        /\ data[MainProc] = SerialCommand(op)
        /\ Writes(SerialCommand(op)) > 0 =>
             \/ hist.matched[MainProc]
             \/ hist.fbArg[MainProc] = SerialCommand(op)
        /\ mpc \in {"serial_wait", "finish", "exit"}
        /\ (Exited /\ result[MainProc]) =>
             /\ pc[MainProc] = "done"
             /\ exitCode = 0
             /\ stdout = print(IF op \in {"status", "get-lock-mode"} THEN Info(op) ELSE Ack(op))

\* status: the only HTTP target failed, the command went out over serial,
\* the notice was printed.
C15_Witness ==
    /\ Exited /\ op = "status"
    /\ Len(net) = 1
    /\ pc[MainProc] = "done" /\ result[MainProc]
    /\ devLog = <<SerialCommand("status")>>
    /\ stdout = print(Info("status"))
    /\ exitCode = 0

\* ---------------------------------------------------------------------- C16
\* Only Desktop App (localhost) URLs are configured, at least one, and no
\* serial port.
OnlyLocalDisplay ==
    /\ config.http_urls # <<>>
    /\ \A i \in DOMAIN config.http_urls : is_localhost_url(config.http_urls[i])
    /\ config.serial_port = <<>>

\* C16: send_reboot never sends a request to a Desktop App target (a URL that
\* is_localhost_url recognises); with only such targets configured and no
\* serial port it issues no HTTP request at all, touches nothing of the
\* serial layer, prints the ESP32-specific no-target error and exits with 1.
C16_RebootSkipsLocalDisplay ==
    op = "reboot" =>
        /\ \A i \in DOMAIN net : ~is_localhost_url(net[i].url)
        /\ OnlyLocalDisplay =>
             /\ net = <<>>
             /\ SerialUntouched
             /\ uncaught = "none"
             /\ Exited => (stdout = print(ERR_NO_ESP32) /\ exitCode = 1)

\* reboot with the Desktop App as the only target has ended in the
\* ESP32-specific error.
C16_Witness ==
    /\ Exited /\ op = "reboot"
    /\ config.http_urls = <<DesktopUrl>>
    /\ config.serial_port = <<>>
    /\ net = <<>>
    /\ stdout = print(ERR_NO_ESP32)
    /\ exitCode = 1

\* ---------------------------------------------------------------------- C17
\* set_lock_mode was called with a mode outside VALID_LOCK_MODES.
InvalidModeGiven ==
    /\ Len(argv) > 1
    /\ argv[1] = "--lock-mode"
    /\ argv[2] \notin {"first-project", "on-thinking"}
    /\ mpc # "main"

\* C17: set_lock_mode with a mode outside {first-project, on-thinking}
\* issues no HTTP request, spawns nothing, touches nothing of the serial
\* layer and runs no fan-out, whatever targets are configured; it prints the
\* invalid-mode error naming the mode, as its only output, and the process
\* exits with 1.
C17_InvalidModeNoIO ==
    InvalidModeGiven =>
        /\ op = "set-lock-mode"
        /\ net = <<>>
        /\ ~spawned
        /\ SerialUntouched
        /\ ~sent_to_all /\ tasks = <<>>
        /\ uncaught = "none"
        /\ mpc \in {"validate", "exit"}
        /\ mpc = "validate" => (stdout = <<>> /\ ENABLED set_lock_mode_validate)
        /\ Exited => (stdout = print(ERR_INVALID_MODE(argv[2])) /\ exitCode = 1)

\* --lock-mode bogus has ended in the invalid-mode error with an HTTP target
\* and a serial port configured and the device present.
C17_Witness ==
    /\ InvalidModeGiven /\ Exited
    /\ config.http_urls # <<>>
    /\ config.serial_port # <<>>
    /\ devExists
    /\ stdout = print(ERR_INVALID_MODE("bogus"))

\* ---------------------------------------------------------------------- C18
\* A control operation that passed the mode validation is over and no target
\* succeeded: no HTTP target answered and send_serial did not return true.
NoTargetSucceeded ==
    /\ Exited
    /\ op \in ControlOps
    /\ ~InvalidModeGiven
    /\ ~HttpAnswered
    /\ ~(pc[MainProc] = "done" /\ result[MainProc])

\* C18: when neither an HTTP target nor the serial target succeeded, the
\* control operation has printed the structured no-target error (the
\* ESP32-specific one for reboot, the generic one otherwise) and the process
\* has exited with 1.
C18_NoTargetError ==
    NoTargetSucceeded =>
        /\ stdout = print(IF op = "reboot" THEN ERR_NO_ESP32 ELSE ERR_NO_TARGET)
        /\ exitCode = 1

\* ---------------------------------------------------------------------- C19
\* The control operation succeeded: an HTTP target answered or send_serial
\* returned true.
Succeeded == HttpAnswered \/ (pc[MainProc] = "done" /\ result[MainProc])

\* C19: a process that ran a control operation has printed exactly one line
\* on standard output and exits with 0 exactly when the operation succeeded
\* and with 1 otherwise; a process that ran no control operation (status
\* fan-out) has printed nothing and exits with 0.
C19_OneLineAndExitCode ==
    Exited =>
        IF op \in ControlOps
        THEN /\ Lines(stdout) = 1
             /\ exitCode = (IF Succeeded THEN 0 ELSE 1)
        ELSE /\ stdout = <<>>
             /\ exitCode = 0

\* ---------------------------------------------------------------------- C20
\* The keys of COMMAND_HANDLERS.
RecognizedFlags == {"--lock", "--unlock", "--status", "--lock-mode", "--reboot"}

\* The first command-line argument is not a recognized control flag (there
\* is none, or it is something else).
NotRecognized == Len(argv) = 0 \/ argv[1] \notin RecognizedFlags

\* The Kiro hook takes its event type from the first argument and has none.
NoEventType == hook = "kiro" /\ (Len(argv) = 0 \/ argv[1] = "")

\* C20 as stated: without a recognized control flag the process runs no
\* control operation (none is chosen, nothing is printed) and it ends having
\* called send_to_all.
C20_Original ==
    NotRecognized =>
        /\ op = "none"
        /\ stdout = <<>>
        /\ Exited => sent_to_all

\* C20, amended: without a recognized control flag the process runs no
\* control operation; it ends having called send_to_all, except in the Kiro
\* hook when the event type (first argument) is missing or empty, where it
\* exits with 0 without calling send_to_all.
C20_UnrecognizedFallsThrough ==
    NotRecognized =>
        /\ op = "none"
        /\ stdout = <<>>
        /\ Exited => IF NoEventType
                     THEN ~sent_to_all /\ exitCode = 0
                     ELSE sent_to_all

\* An unrecognized argument was given and the process ended after
\* send_to_all joined its tasks.
C20_Witness ==
    /\ Len(argv) > 0
    /\ argv[1] \notin RecognizedFlags
    /\ Exited
    /\ sent_to_all
    /\ tasks # <<>>
    /\ handled = DOMAIN tasks
    /\ exitCode = 0

\* ------------------------------------------------- functions on their own
\* No hook invocation and no serial submission is in progress.
Quiet ==
    /\ pc = [p \in Procs |-> "idle"]
    /\ data = [p \in Procs |-> PayloadOf(p)]
    /\ devExists = FALSE
    /\ lockFile = FALSE
    /\ dlockFile = FALSE
    /\ record = NoRecord
    /\ clock = 0
    /\ mlock = NoProc
    /\ dlock = NoProc
    /\ lock_fd = [p \in Procs |-> FALSE]
    /\ raw_fd = [p \in Procs |-> FALSE]
    /\ attempt = [p \in Procs |-> 0]
    /\ exc = [p \in Procs |-> FALSE]
    /\ retval = [p \in Procs |-> FALSE]
    /\ rawFrom = [p \in Procs |-> "none"]
    /\ rawArg = [p \in Procs |-> 0]
    /\ rawRes = [p \in Procs |-> FALSE]
    /\ result = [p \in Procs |-> FALSE]
    /\ devLog = <<>>
    /\ errs = 0
    /\ hist = HistInit
    /\ MainAbsent

\* Entries that can exist under /dev.
FsUniverse ==
    {TtyUSB \o <<"0">>, TtyUSB \o <<"1">>, TtyUSB \o <<"2">>, TtyUSB \o <<"1", "0">>,
     TtyACM \o <<"0">>, TtyACM \o <<"1">>, TtyUSB}

\* Values of VIBEMON_SERIAL_PORT: unset, plain paths, patterns.
PortPatterns ==
    {<<>>, Device, TtyUSB \o <<"2">>, TtyACM \o <<"1">>,
     TtyUSB \o <<"*">>, TtyACM \o <<"*">>, TtyUSB \o <<"1", "*">>,
     <<"/", "d", "e", "v", "/", "t", "t", "y", "*">>,
     <<"/", "d", "e", "v", "/", "*", "0">>}

\* resolve_serial_port is called with any pattern on any small file system.
InitResolve ==
    /\ Quiet
    /\ NoSave
    /\ fn = "resolve_serial_port"
    /\ env \in [port_pattern : PortPatterns,
                fs : {S \in SUBSET FsUniverse : Cardinality(S) <= MaxEntries}]
    /\ ret = Pending

\* The call returns.
resolve_serial_port_return ==
    /\ fn = "resolve_serial_port"
    /\ ~ret.done
    /\ ret' = Returned(resolve_serial_port(env.port_pattern, env.fs))
    /\ UNCHANGED <<fn, env, cacheVars, serialVars, mainVars>>

NextResolve == resolve_serial_port_return

SpecResolve == InitResolve /\ [][NextResolve]_vars

\* ---------------------------------------------------------------------- C21
\* resolve_serial_port has returned.
Resolved == fn = "resolve_serial_port" /\ ret.done

\* C21: resolve_serial_port returns the pattern unchanged when it has no
\* wildcard; with a wildcard it returns the lexicographically smallest
\* matching entry, or None when nothing matches; an empty pattern gives None.
C21_ResolveSerialPort ==
    Resolved =>
        LET pattern == env.port_pattern
            matches == {e \in env.fs : Match(pattern, e)}
        IN  /\ (pattern # <<>> /\ ~HasWildcard(pattern)) => ret.value = pattern
            /\ (HasWildcard(pattern) /\ matches # {}) =>
                   /\ ret.value \in matches
                   /\ \A e \in matches : e = ret.value \/ LexLess(ret.value, e)
            /\ (HasWildcard(pattern) /\ matches = {}) => ret.value = None
            /\ pattern = <<>> => ret.value = None

\* /dev/ttyUSB* on a file system holding /dev/ttyUSB2, /dev/ttyUSB10 and
\* /dev/ttyUSB0 has resolved to /dev/ttyUSB0.
C21_Witness ==
    /\ Resolved
    /\ env.port_pattern = TtyUSB \o <<"*">>
    /\ env.fs = {TtyUSB \o <<"2">>, TtyUSB \o <<"1", "0">>, TtyUSB \o <<"0">>}
    /\ ret.value = TtyUSB \o <<"0">>

\* ---------------------------------------------------------------------- C22
\* Process p found its own token in the record and is in the send_serial_raw
\* call made from that decision.
WritesAsLatest(p) == rawFrom[p] = "normal" /\ InWriteSection(p)

\* C22: a process that found its own token still in the record does not hold
\* the metadata lock while send_serial_raw performs the physical write, so a
\* process waiting to record a new intent can be granted the lock meanwhile.
C22_WriteWithoutMetadataLock ==
    \A p \in Procs :
        WritesAsLatest(p) =>
            /\ mlock # p
            /\ \A q \in Procs \ {p} : pc[q] = "s_lock1" => flock_free(mlock)

\* ---------------------------------------------------------------------- C23
\* Process p is at a statement of send_serial that writes or reads the
\* debounce file.
AccessesRecord(p) == pc[p] \in {"s_write", "s_read"}

\* C23: the record is written and read only by the process holding the
\* metadata lock, so at most one process is at such a statement; a record
\* that can be read is the complete {token, data, time} one submission
\* stored; and the overwrites are totally ordered.
C23_RecordUnderLock ==
    /\ \A p \in Procs : AccessesRecord(p) => mlock = p
    /\ \A p, q \in Procs : (AccessesRecord(p) /\ AccessesRecord(q)) => p = q
    /\ Readable(record) =>
           \E p \in Recorded : record = NewRecord(p, data[p], hist.recTime[p])
    /\ \A p, q \in Recorded : p # q => hist.recTime[p] # hist.recTime[q]

\* p reads, under the lock, the record a later submission q stored, while q
\* waits for the lock to make its own comparison.
C23_Witness ==
    \E p, q \in Procs :
        /\ p # q
        /\ pc[p] = "s_read"
        /\ mlock = p
        /\ pc[q] = "s_lock2"
        /\ record = NewRecord(q, data[q], hist.recTime[q])
        /\ hist.recTime[p] < hist.recTime[q]
        /\ hist.recTime[p] > 0

\* ---------------------------------------------------------------------- C24
\* C24: a process holds the metadata lock only at the record overwrite and
\* at the read-and-decide step (with their unlock), never during the debounce
\* sleep; after send_serial has returned it holds neither lock; the fallback
\* write runs without the metadata lock.
C24_LocksMinimalAndReleased ==
    \A p \in Procs :
        /\ mlock = p => pc[p] \in {"s_write", "s_release1", "s_read", "s_release2"}
        /\ pc[p] = "s_sleep" => mlock # p
        /\ pc[p] = "done" => (mlock # p /\ dlock # p)
        /\ (rawFrom[p] = "fallback" /\ InWriteSection(p)) => mlock # p

\* ---------------------------------------------------------------------- C25
\* stty could not be started in p's send_serial_raw call, nothing else went
\* wrong, and the call is about to return.
SttyFailedOnly(p) ==
    /\ pc[p] = "r_close"
    /\ hist.stty[p] = "norun"
    /\ errs = 1

\* C25: when the stty step of send_serial_raw fails to run at all and nothing
\* else goes wrong, the payload is still written to the device and the call
\* returns true (a non-zero exit status of stty is not a failure for the
\* code: the step after it is the write in any case).
C25_SttyFailureSwallowed ==
    \A p \in Procs :
        SttyFailedOnly(p) =>
            /\ rawRes[p]
            /\ \E i \in DOMAIN devLog : devLog[i] = rawArg[p]

\* ---------------------------------------------------------------------- C26
\* Process p has flushed its write and its settle delay has not ended.
Settling(p) == pc[p] = "r_settle"

\* C26: from the flush of a successful write to the end of its settle delay
\* the writer keeps the device lock: no other process is in or enters the
\* physical-write section, and one that tries the device lock is refused.
C26_LockKeptThroughSettle ==
    \A p \in Procs :
        Settling(p) =>
            /\ dlock = p
            /\ \A q \in Procs \ {p} :
                   /\ ~InWriteSection(q)
                   /\ pc[q] = "r_acquire" => ~acquire_lock_granted(dlock)

\* p is in its settle delay after writing while q has been refused the
\* device lock at least once.
C26_Witness ==
    \E p, q \in Procs :
        /\ p # q
        /\ Settling(p)
        /\ devLog # <<>> /\ devLog[Len(devLog)] = rawArg[p]
        /\ pc[q] = "r_acquire"
        /\ attempt[q] > 0

\* ---------------------------------------------------------------------- C27
\* Project names a payload can carry: none, or one.
Projects == {"", "vibemon-docs"}

\* send_to_all builds its task list for any configuration, any payload
\* project, with the serial device present or not.
InitTasks ==
    /\ Quiet
    /\ NoSave
    /\ fn = "send_to_all"
    /\ env \in [config : Configs, exists : BOOLEAN, project : Projects]
    /\ ret = Pending

\* The task list is built.
send_to_all_tasks ==
    /\ fn = "send_to_all"
    /\ ~ret.done
    /\ ret' = Returned(BuildTasks(env.config, env.exists, env.project))
    /\ UNCHANGED <<fn, env, cacheVars, serialVars, mainVars>>

NextTasks == send_to_all_tasks

SpecTasks == InitTasks /\ [][NextTasks]_vars

\* Number of tasks of one kind in a task list.
CountKind(t, kind) == Cardinality({k \in DOMAIN t : t[k].kind = kind})

\* C27: the task list holds exactly one HTTP task per configured URL, one
\* serial task iff a serial port is configured and resolves to a device, and
\* one VibeMon API task iff URL and token are configured and the payload
\* names a non-empty project.
C27_TaskSetExact ==
    (fn = "send_to_all" /\ ret.done) =>
        LET c == env.config
            t == ret.value
            serial == /\ c.serial_port # <<>>
                      /\ resolve_serial_port(c.serial_port, DevDir(env.exists)) # None
            api == c.vibemon_url /\ c.vibemon_token /\ env.project # ""
        IN  /\ CountKind(t, "http") = Len(c.http_urls)
            /\ \A i \in DOMAIN c.http_urls :
                   \E k \in DOMAIN t : t[k].kind = "http" /\ t[k].url = c.http_urls[i]
            /\ CountKind(t, "serial") = (IF serial THEN 1 ELSE 0)
            /\ CountKind(t, "api") = (IF api THEN 1 ELSE 0)
            /\ Len(t) = CountKind(t, "http") + CountKind(t, "serial")
                              + CountKind(t, "api")

\* URL and token are configured but the payload names no project: only the
\* task of the one HTTP URL is in the list.
C27_Witness ==
    /\ fn = "send_to_all" /\ ret.done
    /\ env.config.vibemon_url /\ env.config.vibemon_token
    /\ env.project = ""
    /\ Len(env.config.http_urls) = 1
    /\ ret.value = <<[kind |-> "http", url |-> env.config.http_urls[1]]>>

\* ---------------------------------------------------------------------- C28
\* The three conditions of the launch pre-step: a start event, a loopback
\* HTTP target, auto-launch enabled.
LaunchWanted ==
    /\ \/ hook = "claude" /\ event = "SessionStart"
       \/ hook = "kiro" /\ event = "promptSubmit"
    /\ \E i \in DOMAIN config.http_urls : is_localhost_url(config.http_urls[i])
    /\ config.auto_launch

\* Requests of the pre-step in the request log.
PreStepRequests == {i \in DOMAIN net : net[i].endpoint \in {"/health", "/show"}}

\* A fan-out task has been started.
FanOutStarted ==
    \/ \E k \in DOMAIN tstate : tstate[k] # "pending"
    \/ \E i \in DOMAIN net : net[i].endpoint = "/status"

\* send_to_all has left the pre-step behind (it did not die inside it).
PastPreStep ==
    \/ mpc \in {"build", "submit", "join"}
    \/ mpc = "exit" /\ sent_to_all /\ uncaught # "prestep"

RECURSIVE replace_separators(_)
replace_separators(port) ==
    IF port = <<>> THEN <<>>
    ELSE <<IF Head(port) = "/" THEN "_" ELSE Head(port)>> \o replace_separators(Tail(port))

\* The literal in front of the port in the three f-strings, per front end.
SerialFilePrefix(h) ==
    IF h = "claude" THEN <<"/tmp/vibe-monitor-serial-">> ELSE <<"/tmp/vibe-monitor-serial-">>

\* Mutant of SerialFileSuffix: the debounce lock shares the device lock's name.
SerialFileSuffix_shared(h, kind) ==
    CASE kind = "lock" -> <<".lock">>
      [] kind = "debounce" -> <<".debounce">>
      [] kind = "dlock" -> <<".lock">>

\* The literal after the port in _get_serial_lock_path,
\* _get_serial_debounce_path and _get_serial_debounce_lock_path, per front end.
SerialFileSuffix(h, kind) ==
    IF h = "claude"
    THEN CASE kind = "lock" -> <<".lock">>
           [] kind = "debounce" -> <<".debounce">>
           [] kind = "dlock" -> <<".dlock">>
    ELSE CASE kind = "lock" -> <<".lock">>
           [] kind = "debounce" -> <<".debounce">>
           [] kind = "dlock" -> <<".dlock">>

\* The three file names front end h uses for a port.
serial_files(h, port) ==
    [kind \in {"lock", "debounce", "dlock"} |->
        SerialFilePrefix(h) \o replace_separators(port) \o SerialFileSuffix(h, kind)]

\* Device paths handed to send_serial.
DevicePaths ==
    FsUniverse \cup {<<"/", "d", "e", "v", "/", "A", "/", "0">>,
                     <<"/", "d", "e", "v", "/", "A", "_", "0">>,
                     <<"t", "t", "y", "0">>}

\* Two processes, each of either front end, name the files of their ports.
InitFiles ==
    /\ Quiet
    /\ NoSave
    /\ fn = "_get_serial_lock_path"
    /\ env \in [hookA : Hooks, portA : DevicePaths, hookB : Hooks, portB : DevicePaths]
    /\ ret = Pending

serial_files_return ==
    /\ fn = "_get_serial_lock_path"
    /\ ~ret.done
    /\ ret' = Returned([a |-> serial_files(env.hookA, env.portA),
                         b |-> serial_files(env.hookB, env.portB)])
    /\ UNCHANGED <<fn, env, cacheVars, serialVars, mainVars>>

NextFiles == serial_files_return

SpecFiles == InitFiles /\ [][NextFiles]_vars

\* C29: the three file names depend on the device path only, with its path
\* separators replaced: two processes of either front end addressing the
\* same path get the same three names, and the three names of one device
\* are pairwise different.
C29_SerialFileNames ==
    (fn = "_get_serial_lock_path" /\ ret.done) =>
        LET a == ret.value.a
            b == ret.value.b
        IN  /\ env.portA = env.portB => a = b
            /\ a["lock"] # a["debounce"] /\ a["lock"] # a["dlock"]
            /\ a["debounce"] # a["dlock"]
            /\ \A kind \in DOMAIN a :
                   /\ Len(a[kind]) = Len(env.portA) + 2
                   /\ \A i \in 1..Len(env.portA) :
                          a[kind][i + 1] = (IF env.portA[i] = "/" THEN "_" ELSE env.portA[i])

\* A Claude hook process and a Kiro hook process have named the files of
\* /dev/ttyUSB0.
C29_Witness ==
    /\ fn = "_get_serial_lock_path" /\ ret.done
    /\ env.hookA = "claude" /\ env.hookB = "kiro"
    /\ env.portA = Device /\ env.portB = Device
    /\ ret.value.b["dlock"] =
           <<"/tmp/vibe-monitor-serial-", "_", "d", "e", "v", "_", "t", "t", "y",
             "U", "S", "B", "0", ".dlock">>

\* ---------------------------------------------------------------------- C30
\* A path is a sequence of pieces; "~" is a leading tilde. Unset: the
\* variable or key is absent.
Unset == <<"unset">>
Home == "/home/user"
HookDefaultCache == <<"~", "/.claude/cache/statusline.json">>
StatuslineDefaultCache == <<"~", "/.vibemon/cache/statusline.json">>

\* Values a cache path setting can have.
CacheSettings ==
    {Unset, HookDefaultCache, StatuslineDefaultCache,
     <<"~", "/cache.json">>, <<"/var/cache/vibemon.json">>}

\* os.path.expanduser
expanduser(path) == IF Head(path) = "~" THEN <<Home>> \o Tail(path) ELSE path

\* os.environ.setdefault(key, value)
setdefault(current, value) == IF current = Unset THEN value ELSE current

\* load_env of the hook: ~/.claude/.env.local fills the variables the
\* environment does not set, a leading "~" replaced by the home directory.
load_env(environ, env_local) ==
    IF env_local = Unset THEN environ ELSE setdefault(environ, expanduser(env_local))

\* load_config of statusline.py: ~/.vibemon/config.json fills the variables
\* the environment does not set.
load_config(environ, config_json) ==
    IF config_json = Unset THEN environ ELSE setdefault(environ, config_json)

\* get_config().cache_path of the hook, the file get_project_metadata reads.
hook_cache_path(e) ==
    LET v == load_env(e.environ, e.env_local)
    IN  expanduser(IF v = Unset THEN HookDefaultCache ELSE v)

\* get_cache_path() of statusline.py, the file save_to_cache writes.
get_cache_path(e) ==
    LET v == load_config(e.environ, e.config_json)
    IN  expanduser(IF v = Unset THEN StatuslineDefaultCache ELSE v)

\* The hook and statusline.py run under one configuration: the process
\* environment, ~/.claude/.env.local and ~/.vibemon/config.json.
InitCache ==
    /\ Quiet
    /\ NoSave
    /\ fn = "get_cache_path"
    /\ env \in [environ : CacheSettings, env_local : CacheSettings,
                config_json : CacheSettings]
    /\ ret = Pending

cache_paths_return ==
    /\ fn = "get_cache_path"
    /\ ~ret.done
    /\ ret' = Returned([reads |-> hook_cache_path(env), writes |-> get_cache_path(env)])
    /\ UNCHANGED <<fn, env, cacheVars, serialVars, mainVars>>

NextCache == cache_paths_return

SpecCache == InitCache /\ [][NextCache]_vars

\* C30: under one configuration, also when no cache path is configured,
\* get_project_metadata reads the file path that save_to_cache writes.
C30_SameCacheFile ==
    (fn = "get_cache_path" /\ ret.done) => ret.value.reads = ret.value.writes

\* ---------------------------------------------------------------------- C31
\* The submission that wrote line i of the device.
WriterOf(i) == CHOOSE p \in Procs : data[p] = devLog[i]

\* C31: without filesystem or lock errors the lines reach the device in the
\* order in which their submissions were recorded, and once every call has
\* returned the last line on the device is the payload of the submission the
\* record holds.
C31_WritesInDecisionOrder ==
    errs = 0 =>
        /\ \A i, j \in DOMAIN devLog :
               i < j => hist.recTime[WriterOf(i)] < hist.recTime[WriterOf(j)]
        /\ (Quiescent /\ Recorded # {}) =>
               /\ devLog # <<>>
               /\ record.id \in Recorded
               /\ hist.recTime[record.id] = clock
               /\ devLog[Len(devLog)] = data[record.id]

\* Three submissions, each recorded after the one before it had decided:
\* three lines on the device, in that order.
C31_Witness ==
    /\ errs = 0
    /\ Quiescent
    /\ Len(devLog) = 3
    /\ hist.late
    /\ devLog[3] = data[record.id]
    /\ devLog[1] # devLog[3]

\* ---------------------------------------------------------------------- C32
\* Process p waits in fcntl.flock(LOCK_EX) for the metadata lock.
WaitsForMetadataLock(p) == pc[p] \in {"s_lock1", "s_lock2"}

\* C32: no process asks for the metadata lock while it holds the device
\* lock (the two are only ever taken in the order metadata lock, device
\* lock), and in no state is every unfinished call unable to take a step.
C32_NoDeadlock ==
    /\ \A p \in Procs : WaitsForMetadataLock(p) => dlock # p
    /\ (\E p \in Procs : Live(p) /\ pc[p] # "start") =>
           \E p \in Procs : Live(p) /\ pc[p] # "start" /\ CanStepAlone(p)

\* p writes to the device holding both locks while the two other calls wait
\* for the metadata lock, one to record and one to decide.
C32_Witness ==
    \E p, q, r \in Procs :
        /\ pc[p] = "r_write" /\ mlock = p /\ dlock = p
        /\ pc[q] = "s_lock1"
        /\ pc[r] = "s_lock2"

\* ------------------------------------ a control operation and a peer's update
\* The other hook invocation that addresses the same device.
Peer == MainProc + 1

\* A control operation of the Claude hook with the device configured and
\* present; the peer has not submitted yet.
InitPeer ==
    /\ InitMain
    /\ hook = "claude"
    /\ Len(argv) > 0 /\ argv[1] \in RecognizedFlags
    /\ config.http_urls \in {<<>>, <<Esp32Url>>}
    /\ config.serial_port = Device
    /\ ~config.auto_launch /\ ~config.vibemon_url /\ ~config.vibemon_token
    /\ devExists

\* The peer's send_to_all runs its serial task: send_serial(port, payload_str)
\* with a status payload.
peer_submit ==
    /\ pc[Peer] = "idle"
    /\ pc' = [pc EXCEPT ![Peer] = "start"]
    /\ UNCHANGED <<pureVars, mainVars, data, devExists, lockFile, dlockFile, record, clock,
                   mlock, dlock, lock_fd, raw_fd, attempt, exc, retval, rawFrom, rawArg,
                   rawRes, result, devLog, errs, hist>>

NextPeer ==
    \/ main_handle_command
    \/ set_lock_mode_validate
    \/ try_http_targets
    \/ try_serial_target
    \/ try_serial_target_return
    \/ command_finish
    \/ peer_submit
    \/ \E p \in Procs : send_serial(p)
    \/ \E p \in Procs : send_serial_raw(p)
    \/ Unplug

SpecPeer == InitPeer /\ [][NextPeer]_vars

\* ---------------------------------------------------------------------- C33
\* The control operation reported success after its serial submission.
SerialFallbackSucceeded ==
    /\ Exited
    /\ op \in ControlOps
    /\ exitCode = 0
    /\ ~HttpAnswered
    /\ pc[MainProc] = "done" /\ result[MainProc]

\* C33: when a control operation falls back to the serial target and reports
\* success, a line carrying its command is on the device by the time every
\* call has returned, whatever a peer submits to the same device meanwhile
\* (stated for runs without any fault).
C33_CommandReachesDevice ==
    (SerialFallbackSucceeded /\ errs = 0 /\ \A p \in Procs : pc[p] \in {"idle", "done"}) =>
        \E i \in DOMAIN devLog : devLog[i] = SerialCommand(op)

\* C34: a single send_serial call performs at most one physical write to the
\* device on every path: no payload appears on the device twice, so the
\* fallback write never follows a write the same call made after the token
\* match.
C34_AtMostOneWritePerCall ==
    \A p \in Procs : Writes(data[p]) <= 1

\* p has found the device path missing at the head of send_serial and has
\* returned: it neither recorded nor reached the except clause.
ReturnedForMissingDevice(p) ==
    Done(p) /\ hist.recTime[p] = 0 /\ hist.fbArg[p] = 0 /\ ~hist.failed[p]

\* C35: send_serial called for a device path that does not exist returns
\* false and leaves the shared state untouched: the step that finds the path
\* missing ends the call with result false and changes neither the record,
\* nor the lock files, nor a lock, nor the device; the record never holds
\* the token of such a call, so a pending submission is not superseded.
C35_MissingDeviceLeavesStateUntouched ==
    /\ [](\A p \in Procs :
             ReturnedForMissingDevice(p) =>
                 ~result[p] /\ record.id # my_id(p) /\ Writes(data[p]) = 0)
    /\ [][\A p \in Procs :
             (pc[p] = "start" /\ ~devExists /\ pc'[p] # "start") =>
                 /\ pc'[p] = "done" /\ ~result'[p]
                 /\ record' = record /\ clock' = clock
                 /\ dlockFile' = dlockFile /\ lockFile' = lockFile
                 /\ mlock' = mlock /\ dlock' = dlock
                 /\ lock_fd' = lock_fd /\ raw_fd' = raw_fd
                 /\ devLog' = devLog
                 /\ hist' = hist]_vars

\* The device has disappeared while q's submission is pending in its
\* debounce sleep; p's call has returned for the missing device and the
\* record still holds q's token.
C35_Witness ==
    \E p, q \in Procs :
        /\ p # q
        /\ ~devExists
        /\ ReturnedForMissingDevice(p) /\ ~result[p]
        /\ pc[q] = "s_sleep" /\ record.id = my_id(q)
        /\ dlockFile /\ ~lockFile

\* ------------------------------------------------------------ save_to_cache
\* A cache is the dict json.load returns, as the sequence of its items in
\* insertion order; an item is a project with the timestamp of its entry
\* and the model and memory values the call of process `data` stored.
Item(project, ts, w) == [project |-> project, ts |-> ts, data |-> w]

has(cache, project) == \E i \in DOMAIN cache : cache[i].project = project

keys(cache) == {cache[i].project : i \in DOMAIN cache}

\* cache.get(project, {}): the item of the project (<<>> for {})
get(cache, project) ==
    IF has(cache, project)
    THEN cache[CHOOSE i \in DOMAIN cache : cache[i].project = project]
    ELSE <<>>

\* cache[project] = {...}: an existing key keeps its place, a new one is last.
set_item(cache, item) ==
    IF has(cache, item.project)
    THEN [i \in DOMAIN cache |-> IF cache[i].project = item.project THEN item ELSE cache[i]]
    ELSE Append(cache, item)

\* sorted(cache.items(), key=lambda x: x[1].get("ts", 0) ..., reverse=...):
\* a stable sort, items of equal timestamp keep their order.
RECURSIVE sorted_by_ts(_, _)
sorted_by_ts(items, reverse) ==
    IF items = <<>>
    THEN <<>>
    ELSE LET x == Head(items)
             rest == sorted_by_ts(Tail(items), reverse)
             before == Cardinality({i \in DOMAIN rest :
                                       IF reverse THEN rest[i].ts > x.ts
                                                  ELSE rest[i].ts < x.ts})
         IN  SubSeq(rest, 1, before) \o <<x>> \o SubSeq(rest, before + 1, Len(rest))

\* Mutant of eviction_order: the items are sorted oldest first.
eviction_order_oldest_first(items) == sorted_by_ts(items, FALSE)

\* sorted_items = sorted(cache.items(), key=..., reverse=True)
eviction_order(items) == sorted_by_ts(items, TRUE)

\* Mutant of kept: nothing is cut off.
kept_all(max_projects) == max_projects

\* sorted_items[:VIBE_MONITOR_MAX_PROJECTS - 1]
kept(max_projects) == max_projects - 1

\* Python's slice s[:n]
slice_to(s, n) == SubSeq(s, 1, IF n < Len(s) THEN n ELSE Len(s))

\* if project not in cache and len(cache) >= VIBE_MONITOR_MAX_PROJECTS: ...
\* cache[project] = {"model": model, "memory": memory, "ts": timestamp}
updated(cache, item) ==
    LET room == IF ~has(cache, item.project) /\ Len(cache) >= VIBE_MONITOR_MAX_PROJECTS
                THEN slice_to(eviction_order(cache), kept(VIBE_MONITOR_MAX_PROJECTS))
                ELSE cache
    IN  set_item(room, item)

\* json.load(f) of the cache file, {} when the file is missing or does not
\* parse (os.path.exists, except json.JSONDecodeError)
load(file) == IF file.exists /\ file.complete THEN file.entries ELSE <<>>

\* The reader of the hook: get_project_metadata(project) opens the cache file
\* without taking the lock; "decode_error" stands for the JSONDecodeError it
\* turns into {}.
read_unlocked(file) ==
    IF ~file.exists THEN "missing"
    ELSE IF ~file.complete THEN "decode_error"
    ELSE "loaded"

get_project_metadata(project, file) ==
    IF project = 0 \/ read_unlocked(file) # "loaded" THEN <<>> ELSE get(file.entries, project)

\* os.replace(src, dst): dst names what src named, src names nothing.
os_replace(fs, src, dst) ==
    IF src = dst THEN fs ELSE [fs EXCEPT ![dst] = fs[src], ![src] = Absent]

\* Mutant of cache_flock_granted: the lock is granted whoever holds it.
cache_flock_granted_always(holder) == TRUE

\* fcntl.flock(lock_fd, fcntl.LOCK_EX | fcntl.LOCK_NB) does not raise
cache_flock_granted(holder) == holder = NoProc

Goto(w, label) == [save EXCEPT ![w].pc = label]

\* save_to_cache(project, model, memory): if not project: return
save_to_cache_call(w) ==
    /\ save[w].pc = "idle"
    /\ \E project \in {0, 1, VIBE_MONITOR_MAX_PROJECTS + 1, VIBE_MONITOR_MAX_PROJECTS + 2} :
          save' = [save EXCEPT ![w].project = project,
                               ![w].pc = IF project = 0 THEN "returned" ELSE "makedirs"]
    /\ UNCHANGED <<files, cache_lock, now>>

\* os.makedirs(cache_dir, exist_ok=True), outside the try statement;
\* timestamp = int(time.time())
save_to_cache_makedirs(w) ==
    /\ save[w].pc = "makedirs"
    /\ \/ save' = [save EXCEPT ![w].timestamp = now, ![w].pc = "open_lock"]
       \/ save' = Goto(w, "raised")
    /\ UNCHANGED <<files, cache_lock, now>>

\* lock_fd = os.open(lockfile, os.O_CREAT | os.O_WRONLY, 0o644)
save_to_cache_open_lock(w) ==
    /\ save[w].pc = "open_lock"
    /\ \/ save' = [save EXCEPT ![w].lock_fd = TRUE, ![w].pc = "flock"]
       \/ save' = Goto(w, "finally")
    /\ UNCHANGED <<files, cache_lock, now>>

\* while True: try: flock(LOCK_EX | LOCK_NB); break
\* except (IOError, OSError): if time.monotonic() - start_time >
\* LOCK_TIMEOUT_SECONDS: return; time.sleep(LOCK_RETRY_INTERVAL)
save_to_cache_flock(w) ==
    /\ save[w].pc = "flock"
    /\ IF cache_flock_granted(cache_lock)
       THEN /\ cache_lock' = w
            /\ save' = [save EXCEPT ![w].acquired = TRUE, ![w].pc = "read"]
       ELSE /\ save' = [save EXCEPT ![w].timed_out = TRUE, ![w].pc = "finally"]
            /\ UNCHANGED cache_lock
    /\ UNCHANGED <<files, now>>

\* cache = {}; if os.path.exists(cache_path): try: cache = json.load(f)
\* except (json.JSONDecodeError, IOError): cache = {}
save_to_cache_read(w) ==
    /\ save[w].pc = "read"
    /\ \/ save' = [save EXCEPT ![w].cache = load(files[cache_path]),
                                  ![w].loaded = TRUE, ![w].pc = "update"]
       \/ \* open() or read() raises IOError
          /\ files[cache_path].exists
          /\ save' = [save EXCEPT ![w].cache = <<>>, ![w].pc = "update"]
    /\ UNCHANGED <<files, cache_lock, now>>

\* the eviction and cache[project] = {...}
save_to_cache_update(w) ==
    /\ save[w].pc = "update"
    /\ save' = [save EXCEPT
                  ![w].cache = updated(save[w].cache,
                                       Item(save[w].project, save[w].timestamp, w)),
                  ![w].pc = "open_tmp"]
    /\ UNCHANGED <<files, cache_lock, now>>

\* with open(tmpfile, "w") as f: the file is created or truncated
save_to_cache_open_tmp(w) ==
    /\ save[w].pc = "open_tmp"
    /\ \/ /\ files' = [files EXCEPT ![tmpfile(cache_path, w)] = Truncated]
          /\ save' = Goto(w, "dump")
       \/ /\ save' = Goto(w, "finally")
          /\ UNCHANGED files
    /\ UNCHANGED <<cache_lock, now>>

\* json.dump(cache, f) and the close of the with statement
save_to_cache_dump(w) ==
    /\ save[w].pc = "dump"
    /\ \/ /\ files' = [files EXCEPT ![tmpfile(cache_path, w)] = Complete(save[w].cache)]
          /\ save' = Goto(w, "replace")
       \/ \* the write raises (disk full): except (IOError, OSError): pass
          /\ save' = Goto(w, "finally")
          /\ UNCHANGED files
    /\ UNCHANGED <<cache_lock, now>>

\* os.replace(tmpfile, cache_path)
save_to_cache_replace(w) ==
    /\ save[w].pc = "replace"
    /\ \/ /\ files' = os_replace(files, tmpfile(cache_path, w), cache_path)
          /\ save' = [save EXCEPT ![w].published = TRUE, ![w].pc = "finally"]
       \/ /\ save' = Goto(w, "finally")
          /\ UNCHANGED files
    /\ UNCHANGED <<cache_lock, now>>

\* finally: if lock_fd is not None: flock(lock_fd, LOCK_UN); os.close(lock_fd)
\* (an OSError is passed over; the lock goes with the descriptor)
save_to_cache_finally(w) ==
    /\ save[w].pc = "finally"
    /\ cache_lock' = IF save[w].lock_fd THEN unlocked(cache_lock, w) ELSE cache_lock
    /\ save' = [save EXCEPT ![w].lock_fd = FALSE, ![w].pc = "returned"]
    /\ UNCHANGED <<files, now>>

save_to_cache(w) ==
    /\ \/ save_to_cache_call(w)
       \/ save_to_cache_makedirs(w)
       \/ save_to_cache_open_lock(w)
       \/ save_to_cache_flock(w)
       \/ save_to_cache_read(w)
       \/ save_to_cache_update(w)
       \/ save_to_cache_open_tmp(w)
       \/ save_to_cache_dump(w)
       \/ save_to_cache_replace(w)
       \/ save_to_cache_finally(w)
    /\ UNCHANGED <<fn, env, ret, serialVars, mainVars>>

\* A second of time.time() passes.
Tick ==
    /\ now < VIBE_MONITOR_MAX_PROJECTS + MaxTicks
    /\ now' = now + 1
    /\ UNCHANGED <<files, cache_lock, save, fn, env, ret, serialVars, mainVars>>

\* The cache file the statuslines start from: none, or n projects stored
\* before now, with rising, falling or equal timestamps.
Stored(n, order) ==
    [i \in 1..n |->
        Item(i, CASE order = "rising" -> i
                  [] order = "falling" -> VIBE_MONITOR_MAX_PROJECTS + 1 - i
                  [] OTHER -> VIBE_MONITOR_MAX_PROJECTS,
             0)]

StartFiles ==
    {Absent} \cup
    {Complete(Stored(n, order)) :
        n \in {0, VIBE_MONITOR_MAX_PROJECTS - 1, VIBE_MONITOR_MAX_PROJECTS},
        order \in {"rising", "falling", "same"}}

InitSave ==
    /\ Quiet
    /\ fn = "none" /\ env = <<>> /\ ret = Pending
    /\ files \in {[f \in Paths |-> IF f = cache_path THEN c ELSE Absent] : c \in StartFiles}
    /\ cache_lock = NoProc
    /\ save = [w \in Writers |-> NotCalled]
    /\ now = VIBE_MONITOR_MAX_PROJECTS

NextSave ==
    \/ \E w \in Writers : save_to_cache(w)
    \/ Tick

SpecSave == InitSave /\ [][NextSave]_vars

\* Every call has returned (or raised out of os.makedirs).
AllSaved == \A w \in Writers : save[w].pc \in {"returned", "raised"}

\* The step is the rename by which w's call replaces the cache file.
Publishes(w) == save[w].pc = "replace" /\ save'[w].published

\* C36: starting from a cache of at most VIBE_MONITOR_MAX_PROJECTS projects,
\* the cache file holds at most VIBE_MONITOR_MAX_PROJECTS entries after any
\* sequence and any interleaving of save_to_cache calls, and so does every
\* cache a call is about to publish.
C36_CacheBounded ==
    /\ Len(files[cache_path].entries) <= VIBE_MONITOR_MAX_PROJECTS
    /\ \A w \in Writers :
           save[w].pc \in {"open_tmp", "dump", "replace"} =>
               Len(save[w].cache) <= VIBE_MONITOR_MAX_PROJECTS

\* Two calls have each added a new project to a cache that was full.
C36_Witness ==
    /\ AllSaved
    /\ \A w \in Writers : save[w].published /\ save[w].project > VIBE_MONITOR_MAX_PROJECTS
    /\ \E w, v \in Writers : save[w].project # save[v].project
    /\ Len(files[cache_path].entries) = VIBE_MONITOR_MAX_PROJECTS
    /\ \A w \in Writers : has(files[cache_path].entries, save[w].project)

\* The item of `project` in a cache that has it.
item_of(cache, project) == cache[CHOOSE i \in DOMAIN cache : cache[i].project = project]

\* Every project of `which` has the same item in both caches.
SameItems(old, new, which) ==
    \A q \in which : has(new, q) /\ item_of(new, q) = item_of(old, q)

\* C37: at the update of the cache a call has loaded: a project that is not
\* in a full cache (VIBE_MONITOR_MAX_PROJECTS entries) takes the place of
\* exactly one entry, one whose timestamp no other entry's is older than,
\* with every other entry kept unchanged; a project already in the cache
\* only has its own entry changed and nothing is evicted; in both cases the
\* project is present afterwards with the call's timestamp.
C37_EvictsOldestOnly ==
    [][\A w \in Writers :
          (save[w].pc = "update" /\ save'[w].pc # "update") =>
              LET old == save[w].cache
                  new == save'[w].cache
                  p == save[w].project
              IN  /\ has(new, p)
                  /\ item_of(new, p) = Item(p, save[w].timestamp, w)
                  /\ has(old, p) =>
                         /\ keys(new) = keys(old)
                         /\ SameItems(old, new, keys(old) \ {p})
                  /\ (~has(old, p) /\ Len(old) = VIBE_MONITOR_MAX_PROJECTS) =>
                         \E victim \in keys(old) :
                             /\ \A q \in keys(old) :
                                    item_of(old, victim).ts <= item_of(old, q).ts
                             /\ keys(new) = (keys(old) \ {victim}) \cup {p}
                             /\ SameItems(old, new, keys(old) \ {victim})
                  /\ (~has(old, p) /\ Len(old) < VIBE_MONITOR_MAX_PROJECTS) =>
                         /\ keys(new) = keys(old) \cup {p}
                         /\ SameItems(old, new, keys(old))]_vars

\* A call has put a new project into a full cache whose oldest entry was
\* neither its first nor its last: the second call's, after the first call
\* had refreshed project 1 of a cache with rising timestamps.
C37_Witness ==
    \E w, v \in Writers :
        /\ save[v].published /\ save[v].project = 1
        /\ save[w].pc = "open_tmp" /\ save[w].project > VIBE_MONITOR_MAX_PROJECTS
        /\ Len(save[w].cache) = VIBE_MONITOR_MAX_PROJECTS
        /\ has(save[w].cache, 1) /\ item_of(save[w].cache, 1).data = v
        /\ ~has(save[w].cache, 2)
        /\ has(save[w].cache, VIBE_MONITOR_MAX_PROJECTS)

\* w's call acquired the cache lock, read the cache file without an error
\* and renamed its temporary file over the cache, and has returned.
TookEffect(w) ==
    save[w].pc = "returned" /\ save[w].acquired /\ save[w].loaded /\ save[w].published

\* C38 as claimed: after two calls for different projects that both acquired
\* the cache lock and both published have returned, the cache holds both
\* projects' entries (stated for calls none of whose file operations failed).
C38_Original ==
    \A w, v \in Writers :
        (TookEffect(w) /\ TookEffect(v) /\ save[w].project # save[v].project) =>
            /\ has(files[cache_path].entries, save[w].project)
            /\ has(files[cache_path].entries, save[v].project)

\* C38: the read-modify-write of a call is done under the exclusive cache
\* lock: from its read to its rename the call holds the lock and nobody else
\* does, and the cache file stays what it was when the call read it, so the
\* cache it publishes is the update of the cache the previous holder
\* published (of the empty cache, had its read failed). Two calls for
\* different projects that both took effect therefore both have their entry
\* in the cache afterwards, unless the cache is full: then the later
\* insertion may have evicted the earlier entry.
C38_NoLostUpdate ==
    /\ \A w \in Writers :
           save[w].pc \in {"read", "update", "open_tmp", "dump", "replace"} =>
               /\ cache_lock = w
               /\ \A v \in Writers \ {w} :
                      save[v].pc \notin {"read", "update", "open_tmp", "dump", "replace"}
    /\ \A w \in Writers :
           (save[w].pc \in {"open_tmp", "dump", "replace"} /\ save[w].loaded) =>
               save[w].cache = updated(load(files[cache_path]),
                                       Item(save[w].project, save[w].timestamp, w))
    /\ \A w, v \in Writers :
           (/\ TookEffect(w) /\ TookEffect(v) /\ save[w].project # save[v].project
            /\ Len(files[cache_path].entries) < VIBE_MONITOR_MAX_PROJECTS) =>
                /\ has(files[cache_path].entries, save[w].project)
                /\ has(files[cache_path].entries, save[v].project)

\* w has added a new project to a 9-entry cache; v, refreshing project 1, has
\* read the cache w published and is about to publish one holding both.
C38_Witness ==
    \E w, v \in Writers :
        /\ TookEffect(w) /\ save[w].project = VIBE_MONITOR_MAX_PROJECTS + 1
        /\ save[v].pc = "replace" /\ save[v].project = 1
        /\ Len(save[v].cache) = VIBE_MONITOR_MAX_PROJECTS
        /\ has(save[v].cache, save[w].project)
        /\ item_of(save[v].cache, 1).data = v

\* C39: a save_to_cache call that cannot acquire the cache lock before its
\* timeout returns without raising and without having read, written or
\* replaced anything; the cache file is replaced only by the rename of a
\* call that holds the cache lock, and changes at no other step.
C39_TimeoutLeavesCacheAlone ==
    /\ [](\A w \in Writers :
             save[w].timed_out =>
                 /\ save[w].pc \in {"finally", "returned"}
                 /\ ~save[w].acquired /\ ~save[w].published
                 /\ cache_lock # w
                 /\ ~files[tmpfile(cache_path, w)].exists)
    /\ [][/\ files'[cache_path] # files[cache_path] =>
                 \E w \in Writers :
                     /\ Publishes(w)
                     /\ cache_lock = w /\ save[w].acquired /\ ~save[w].timed_out
          /\ \A w \in Writers :
                 (save[w].pc = "flock" /\ save'[w].timed_out) =>
                     files' = files /\ cache_lock' = cache_lock]_vars

\* w gave up waiting and has returned while v, holding the lock, is about to
\* rename its new cache over the cache file.
C39_Witness ==
    \E w, v \in Writers :
        /\ save[w].timed_out /\ save[w].pc = "returned"
        /\ cache_lock = v /\ save[v].pc = "replace"
        /\ files[cache_path] # files[tmpfile(cache_path, v)]
        /\ files[cache_path].exists

\* C40: the cache file changes only by the rename of a complete temporary
\* file that belongs to the renaming process alone, so at every moment it
\* holds a complete cache: get_project_metadata, which takes no lock, loads
\* either the cache as it was before the rename or the complete new one, and
\* never meets a partially written file.
C40_ReaderSeesCompleteCache ==
    /\ [](/\ read_unlocked(files[cache_path]) # "decode_error"
          /\ \A w, v \in Writers :
                 w # v => tmpfile(cache_path, w) # tmpfile(cache_path, v)
          /\ \A w \in Writers : tmpfile(cache_path, w) # cache_path)
    /\ [][files'[cache_path] # files[cache_path] =>
              \E w \in Writers :
                  /\ Publishes(w)
                  /\ files[tmpfile(cache_path, w)] = Complete(save[w].cache)
                  /\ files'[cache_path] = Complete(save[w].cache)
                  /\ \A project \in keys(save[w].cache) :
                         get_project_metadata(project, files'[cache_path])
                             = item_of(save[w].cache, project)]_vars

\* The new cache of w lies half written in w's temporary file while the
\* cache file still holds the previous cache, which the reader loads: the
\* entry of project 1 as v published it.
C40_Witness ==
    \E w, v \in Writers :
        /\ save[w].pc = "dump" /\ files[tmpfile(cache_path, w)] = Truncated
        /\ save[v].published
        /\ read_unlocked(files[cache_path]) = "loaded"
        /\ get_project_metadata(1, files[cache_path]) = Item(1, save[v].timestamp, v)
        /\ Len(files[cache_path].entries) = VIBE_MONITOR_MAX_PROJECTS

====
